---- MODULE Spec2Model ----
(***************************************************************************)
(* A model of apod-bot: the event-sourced schedule store (DB), the hourly  *)
(* scheduler (Bot.RunScheduler) with the command handlers that share the   *)
(* store, the append-only record cache with the APOD client (Get, Today,   *)
(* Fill), the image transcoder (ImageWrapper.Resize, resizeImage), the     *)
(* image caches (MemoryImageCache, GetOrSetImage, ImageCache.GetOrSet),    *)
(* the load of the two log files, and the RunScheduler of bot.go.          *)
(*                                                                         *)
(* Dates are day numbers counted from 1995-06-16 (day 0); Format and Parse *)
(* of "2006-01-02" are a bijection between day numbers and date strings,   *)
(* and the model keeps the day number as the key.                          *)
(***************************************************************************)
EXTENDS Integers, Sequences, FiniteSets, TLC

\* ------------------------------------------------------------------ bounds
MaxEvents == 2
MaxHour == 1
MaxDate == 1
MaxDay == 2
MaxVer == 2
MaxGets == 2
MaxTodays == 1
MaxLen == 3
MaxAdds == 2
MaxOps == 3
MaxSpan == 32

Channels == {"c1", "c2"}
Hours == 0..MaxHour
Dates == 1..MaxDate
Handlers == {"h1"}
Procs == {"sched"} \cup Handlers
Callers == {"a1", "a2"}

None == "none"

VARIABLES
    \* --- DB (schedule store)
    schedule,      \* db.schedule: channelID -> hour
    last,          \* db.last: channelID -> date
    dbLog,         \* the lines the db.encoder has written
    rwW,           \* the goroutine inside db.Lock() (holds rw.w, readers are held off), or None
    rwReaders,     \* the goroutines holding db.RLock()
    dpc,           \* per goroutine: position inside a DB method
    dop,           \* per goroutine: the DB method being run and its arguments
    todo,          \* per goroutine: keys the range loop of RemoveIf has still to visit
    encFails,      \* the number of db.encoder.Encode calls that returned an error
    \* --- Bot.RunScheduler
    spc,           \* position of the scheduler goroutine
    sDate,         \* res.Date of the record Retry returned
    sEmbed,        \* ToEmbed returned an embed and a file
    sHour,         \* hour := time.Now().UTC().Hour()
    sTodo,         \* keys the range loop of View has still to visit
    sCur,          \* channelID of the callback View is running
    \* --- AppendOnly record cache and the upstream API
    cache,         \* AppendOnly.cache: date -> record
    cacheLog,      \* the lines of the cache file: those the cache was loaded from, then those its encoder wrote
    cacheFailed,   \* some Encode call of the cache's encoder has returned an error
    upToday,       \* the date of the record the upstream answers a request without a date with
    upVer,         \* the revision of the records the upstream serves
    upFault,       \* some upstream request has failed or was answered with records missing
    \* --- APOD client
    current,       \* a.current
    fresh,         \* time.Since(a.lastUpdate) < time.Hour
    gpc,           \* position of the goroutine of a command handler inside APOD.Get
    gDate,         \* the date argument of its Get call
    gRet,          \* the record its call returned
    gReq,          \* its call has issued an upstream request
    got,           \* date -> the record the first successful Get of the date returned
    hOps,          \* the number of Get calls the handler goroutine has made
    tpc,           \* position of a goroutine that calls APOD.Today
    tOps,          \* the number of Today calls it has made
    \* --- APOD.Fill
    fpc,           \* position of the goroutine running Fill
    fToday,        \* today
    fD,            \* the loop variable d
    fEnd,          \* end
    fPre,          \* the dates the cache held when Fill was called
    fUp,           \* the number of range and by-date requests Fill has issued
    fUpToday,      \* the number of requests Fill's call of Today has issued
    fUnpaced,      \* the kind of Fill's last request if no pacing sleep has followed it
    \* --- image transcoding
    ipc,           \* position inside ImageWrapper.Resize or resizeImage
    iBytes,        \* i.Bytes, or img: the encoding and the length of the buffer
    iFormat,       \* i.Format
    iDecodes,      \* image.Decode accepts img
    iMax,          \* maxBytes, or maxSize
    iQuality,      \* the loop variable quality
    iRet,          \* what the call returned
    iBuf,          \* resizeImage's buf: the encodings written to it since its last Reset
    \* --- MemoryImageCache
    mic,           \* the MemoryImageCache: MaxSize, Size and Cache, the list front first
    micCall,       \* the last call on it, and what it returned
    micCalls,      \* the number of calls made on it
    micPanicked,   \* a call has panicked
    micUsed,       \* every date Set was called with and the length it was last set to, most recently used first
    micFetched,    \* the last call has invoked getImage
    \* --- a log file being loaded
    fileOf,        \* what the file is: the schedule event log or the record cache log
    file,          \* its lines
    lpc,           \* position of the load
    loaded,        \* what NewDB or NewAppendCache returned
    \* --- callers of GetOrSetImage and of ImageCache.GetOrSet
    oVia,          \* the function the callers use: "GetOrSetImage" or "GetOrSet"
    oPc,           \* per caller: position inside its call
    oDate,         \* per caller: the date (day) argument
    oImg,          \* per caller: the image its fallback returned
    oRet,          \* per caller: what its call returned
    oFetched,      \* per caller: its call has invoked the fallback
    oOverlap,      \* a caller has started its call on a date while the other's call on that date was running
    store,         \* the image cache: date -> image
    oFetches,      \* the number of fallback calls that returned an image
    icW,           \* the caller holding ImageCache's Lock(), or None
    \* --- Bot.RunScheduler of bot.go
    backOff,       \* backOff, in seconds
    \* --- a call of Retry
    rOutcomes,     \* whether the n-th call of f would succeed
    rpc,           \* position of the caller of Retry
    rRet,          \* what Retry returned: the calls of f it made, and whether the last one succeeded
    \* --- the first gap pass 1 of Fill finds
    scanHas,       \* the dates the cache holds
    scanToday,     \* today
    scanPc,        \* position of the search
    scanRet,       \* the range [d, end] it requests, or NoRange
    \* --- two goroutines calling one cache
    ccKind,        \* the type of the cache: "AppendOnly", "InMemoryFS" or "MemoryImageCache"
    ccPc,          \* per caller: idle, or reading or writing the cache's map or list
    ccKey,         \* per caller: the date argument
    ccW,           \* the caller holding the cache's Lock(), or None
    ccReaders,     \* the callers holding its RLock()
    ccKeys,        \* the dates the cache holds
    ccFault,       \* an unsynchronised access has gone wrong (the runtime's fatal error, or lost data)
    \* --- DirectoryImageCache
    dirReady,      \* c.ready: the days of the index
    dirFiles,      \* the files of c.dir: <<day, extension>> -> bytes
    dirRet         \* what the last Get returned, and the files it tried to read

dbVars == <<schedule, last, dbLog, rwW, rwReaders, dpc, dop, todo, encFails>>
schedVars == <<spc, sDate, sEmbed, sHour, sTodo, sCur>>
cacheVars == <<cache, cacheLog, cacheFailed, upToday, upVer, upFault>>
clientVars == <<current, fresh, gpc, gDate, gRet, gReq, got, hOps, tpc, tOps>>
fillVars == <<fpc, fToday, fD, fEnd, fPre, fUp, fUpToday, fUnpaced>>
apodVars == <<cacheVars, clientVars, fillVars>>
botVars == <<dbVars, schedVars>>
transVars == <<ipc, iBytes, iFormat, iDecodes, iMax, iQuality, iRet, iBuf>>
micVars == <<mic, micCall, micCalls, micPanicked, micUsed, micFetched>>
loadVars == <<fileOf, file, lpc, loaded>>
\* the components that are checked on their own
gosVars == <<oVia, oPc, oDate, oImg, oRet, oFetched, oOverlap, store, oFetches, icW>>
retryVars == <<rOutcomes, rpc, rRet>>
\* the functions that are checked on inputs drawn at the start
scanVars == <<scanHas, scanToday, scanPc, scanRet>>
ccVars == <<ccKind, ccPc, ccKey, ccW, ccReaders, ccKeys, ccFault>>
dirVars == <<dirReady, dirFiles, dirRet>>
fnVars == <<retryVars, scanVars, ccVars, dirVars>>
auxVars == <<micVars, loadVars, gosVars, backOff, fnVars>>
memRest == <<botVars, apodVars, transVars, loadVars, gosVars, backOff, fnVars>>
loadRest == <<botVars, apodVars, transVars, micVars, gosVars, backOff, fnVars>>
gosRest == <<botVars, apodVars, transVars, micVars, loadVars, backOff, fnVars>>
fnRest == <<botVars, apodVars, transVars, micVars, loadVars, gosVars, backOff>>
imgVars == <<transVars, auxVars>>
vars == <<dbVars, schedVars, apodVars, imgVars>>

\* ------------------------------------------------------------ Go maps
EmptyMap == [x \in {} |-> 0]
MapPut(m, k, v) == [x \in (DOMAIN m) \cup {k} |-> IF x = k THEN v ELSE m[x]]
MapDelete(m, k) == [x \in (DOMAIN m) \ {k} |-> m[x]]

\* ------------------------------------------------------------ events
EventTypeSet == 0
EventTypeRemove == 1
EventTypeSent == 2

NoPtr == [nil |-> TRUE]
SetEvent(c, h) == [nil |-> FALSE, ChannelID |-> c, Hour |-> h]
RemoveEvent(c) == [nil |-> FALSE, ChannelID |-> c]
SentEvent(c, d) == [nil |-> FALSE, ChannelID |-> c, Date |-> d]
Event(t, s, r, n) == [Type |-> t, Set |-> s, Remove |-> r, Sent |-> n]

\* EventType.String with the names of remove and sent exchanged
EventTypeString_SwapRemove(e) ==
    CASE e = EventTypeSet -> "set"
      [] e = EventTypeRemove -> "sent"
      [] e = EventTypeSent -> "remove"
      [] OTHER -> ""

\* EventType.String, used by MarshalJSON
EventTypeString(e) ==
    CASE e = EventTypeSet -> "set"
      [] e = EventTypeRemove -> "remove"
      [] e = EventTypeSent -> "sent"
      [] OTHER -> ""

\* EventType.UnmarshalJSON: the type of a line, or an error
UnmarshalEventType(s) ==
    CASE s = "set" -> [err |-> FALSE, e |-> EventTypeSet]
      [] s = "remove" -> [err |-> FALSE, e |-> EventTypeRemove]
      [] s = "sent" -> [err |-> FALSE, e |-> EventTypeSent]
      [] OTHER -> [err |-> TRUE, e |-> EventTypeSet]

\* json.Encoder.Encode(event): one line; a nil payload pointer is omitted
\* (omitempty).  The time stamp is written but never read back by load.
MarshalEvent(ev) ==
    [type |-> EventTypeString(ev.Type),
     set |-> ev.Set, remove |-> ev.Remove, sent |-> ev.Sent]

\* json.Decoder.Decode(&event) of one line
UnmarshalEvent(line) ==
    LET t == UnmarshalEventType(line.type)
    IN [err |-> t.err,
        ev |-> Event(t.e, line.set, line.remove, line.sent)]

\* a line that a crash cut short: the start of a JSON value without its end
TruncatedLine == [partial |-> TRUE]
IsTruncated(line) == "partial" \in DOMAIN line

\* json.Decoder.Decode(&event) of the next line: the end of the input inside
\* a value is io.ErrUnexpectedEOF
DecodeEvent(line) ==
    IF IsTruncated(line)
    THEN [err |-> TRUE, ev |-> Event(EventTypeSet, NoPtr, NoPtr, NoPtr)]
    ELSE UnmarshalEvent(line)

\* db.set keeping the hour a channel already has
DbSet_KeepFirst(st, ev) ==
    IF ev.ChannelID \in DOMAIN st.schedule THEN st
    ELSE [st EXCEPT !.schedule = MapPut(@, ev.ChannelID, ev.Hour)]

\* db.set, db.remove, db.sent on the pair of maps
DbSet(st, ev) == [st EXCEPT !.schedule = MapPut(@, ev.ChannelID, ev.Hour)]
DbRemove_DropLast(st, ev) ==
    [st EXCEPT !.schedule = MapDelete(@, ev.ChannelID), !.last = MapDelete(@, ev.ChannelID)]
DbRemove(st, ev) == [st EXCEPT !.schedule = MapDelete(@, ev.ChannelID)]
DbSent(st, ev) == [st EXCEPT !.last = MapPut(@, ev.ChannelID, ev.Date)]

\* the switch of DB.load; a nil payload is dereferenced by set/remove/sent
ApplyEvent(st, ev) ==
    CASE ev.Type = EventTypeSet ->
            IF ev.Set.nil THEN [st EXCEPT !.status = "panic"] ELSE DbSet(st, ev.Set)
      [] ev.Type = EventTypeRemove ->
            IF ev.Remove.nil THEN [st EXCEPT !.status = "panic"] ELSE DbRemove(st, ev.Remove)
      [] ev.Type = EventTypeSent ->
            IF ev.Sent.nil THEN [st EXCEPT !.status = "panic"] ELSE DbSent(st, ev.Sent)
      [] OTHER -> st

\* DB.load: the decode loop over the lines, from the state NewDB built
RECURSIVE LoadFrom(_, _)
LoadFrom(st, lines) ==
    IF lines = <<>> \/ st.status # "ok" THEN st
    ELSE LET d == DecodeEvent(Head(lines))
         IN IF d.err THEN [st EXCEPT !.status = "error"]
            ELSE LoadFrom(ApplyEvent(st, d.ev), Tail(lines))

\* NewDB(r, w): empty maps, then load
NewDB(lines) ==
    LoadFrom([status |-> "ok", schedule |-> EmptyMap, last |-> EmptyMap], lines)

\* db.encoder.Encode(event): the line is appended unless the write fails
Encode(log, ev, ok) == IF ok THEN Append(log, MarshalEvent(ev)) ELSE log


\* a DB method call in progress: the method and its arguments (for RemoveIf,
\* ChannelID is the loop variable of its range loop)
Op(k, c, h, d) == [kind |-> k, ChannelID |-> c, Hour |-> h, Date |-> d]
NoOp == Op("none", "", 0, 0)

\* ------------------------------------------------------------ sync.RWMutex
\* db.Lock(), first half: take rw.w and announce the writer, which holds
\* off every later RLock.  A second writer waits here for rw.w.
RWLockBegin(p) ==
    /\ dpc[p] = "lock"
    /\ rwW = None
    /\ rwW' = p
    /\ dpc' = [dpc EXCEPT ![p] = "wait"]
    /\ UNCHANGED <<schedule, last, dbLog, rwReaders, dop, todo, encFails>>
    /\ UNCHANGED <<schedVars, apodVars, imgVars>>

\* db.Lock(), second half: the writer goes on when no reader holds RLock
RWLocked(p) == dpc[p] = "wait" /\ rwW = p /\ rwReaders = {}

\* db.RLock() goes on when no writer holds or awaits the lock
RWCanRLock == rwW = None

\* some db.encoder.Encode call has returned an error
appendFailed == encFails > 0

Live == [status |-> "ok", schedule |-> schedule, last |-> last]

\* the body of a locked DB method: apply the event to the maps, encode it,
\* and (when done is true) db.Unlock() and return
Commit(p, st, ev, ok, done) ==
    /\ schedule' = st.schedule
    /\ last' = st.last
    /\ dbLog' = Encode(dbLog, ev, ok)
    /\ encFails' = encFails + (IF ok THEN 0 ELSE 1)
    /\ rwW' = IF done THEN None ELSE rwW
    /\ dpc' = [dpc EXCEPT ![p] = IF done THEN "idle" ELSE "crit"]
    /\ UNCHANGED rwReaders

\* DB.Set, from the moment db.Lock() returns
DB_Set(p) ==
    /\ RWLocked(p) /\ dop[p].kind = "Set"
    /\ \E ok \in BOOLEAN :
         LET ev == Event(EventTypeSet, SetEvent(dop[p].ChannelID, dop[p].Hour), NoPtr, NoPtr)
         IN Commit(p, DbSet(Live, ev.Set), ev, ok, TRUE)
    /\ dop' = [dop EXCEPT ![p] = NoOp]
    /\ UNCHANGED todo
    /\ UNCHANGED schedVars

\* DB.Remove, from the moment db.Lock() returns
DB_Remove(p) ==
    /\ RWLocked(p) /\ dop[p].kind = "Remove"
    /\ \E ok \in BOOLEAN :
         LET ev == Event(EventTypeRemove, NoPtr, RemoveEvent(dop[p].ChannelID), NoPtr)
         IN Commit(p, DbRemove(Live, ev.Remove), ev, ok, TRUE)
    /\ dop' = [dop EXCEPT ![p] = NoOp]
    /\ UNCHANGED todo
    /\ UNCHANGED schedVars

\* DB.Sent, from the moment db.Lock() returns
DB_Sent(p) ==
    /\ RWLocked(p) /\ dop[p].kind = "Sent"
    /\ \E ok \in BOOLEAN :
         LET ev == Event(EventTypeSent, NoPtr, NoPtr, SentEvent(dop[p].ChannelID, dop[p].Date))
         IN Commit(p, DbSent(Live, ev.Sent), ev, ok, TRUE)
    /\ dop' = [dop EXCEPT ![p] = NoOp]
    /\ UNCHANGED todo
    /\ UNCHANGED schedVars

\* DB.RemoveIf: db.Lock() returns and the range loop over db.schedule starts
DB_RemoveIfLock(p) ==
    /\ RWLocked(p) /\ dop[p].kind = "RemoveIf"
    /\ dpc' = [dpc EXCEPT ![p] = "crit"]
    /\ todo' = [todo EXCEPT ![p] = DOMAIN schedule]
    /\ UNCHANGED <<schedule, last, dbLog, rwW, rwReaders, dop, encFails>>
    /\ UNCHANGED schedVars

\* DB.RemoveIf, one iteration that removes the selected channel from the map
\* and writes nothing
DB_RemoveIfStep_NoLog(p) ==
    /\ dpc[p] = "crit" /\ dop[p].kind = "RemoveIf"
    /\ \E c \in todo[p], f \in BOOLEAN :
         /\ todo' = [todo EXCEPT ![p] = @ \ {c}]
         /\ dop' = [dop EXCEPT ![p].ChannelID = c]
         /\ schedule' = IF f THEN MapDelete(schedule, c) ELSE schedule
         /\ UNCHANGED <<last, dbLog, rwW, rwReaders, dpc, encFails>>
    /\ UNCHANGED schedVars

\* DB.RemoveIf: one iteration of the range loop; f is the caller's predicate
\* (Bot.UpdateSchedule: session.Channel(channelID) returned an error)
DB_RemoveIfStep(p) ==
    /\ dpc[p] = "crit" /\ dop[p].kind = "RemoveIf"
    /\ \E c \in todo[p], f \in BOOLEAN, ok \in BOOLEAN :
         /\ todo' = [todo EXCEPT ![p] = @ \ {c}]
         /\ dop' = [dop EXCEPT ![p].ChannelID = c]
         /\ IF f
            THEN LET ev == Event(EventTypeRemove, NoPtr, RemoveEvent(c), NoPtr)
                 IN Commit(p, DbRemove(Live, ev.Remove), ev, ok, FALSE)
            ELSE /\ ok
                 /\ UNCHANGED <<schedule, last, dbLog, rwW, rwReaders, dpc, encFails>>
    /\ UNCHANGED schedVars

\* DB.RemoveIf: the loop is over, db.Unlock()
DB_RemoveIfUnlock(p) ==
    /\ dpc[p] = "crit" /\ dop[p].kind = "RemoveIf"
    /\ todo[p] = {}
    /\ rwW' = None
    /\ dpc' = [dpc EXCEPT ![p] = "idle"]
    /\ dop' = [dop EXCEPT ![p] = NoOp]
    /\ UNCHANGED <<schedule, last, dbLog, rwReaders, todo, encFails>>
    /\ UNCHANGED schedVars

\* ------------------------------------------------------------ command handlers
\* A handler goroutine calls a DB method; the step is taken when rw.w is
\* free, so that db.Lock() announces the writer at once.
CallWithin(p, o, max) ==
    /\ dpc[p] = "idle"
    /\ rwW = None
    /\ Len(dbLog) + encFails < max
    /\ dop' = [dop EXCEPT ![p] = o]
    /\ dpc' = [dpc EXCEPT ![p] = "wait"]
    /\ rwW' = p
    /\ UNCHANGED <<schedule, last, dbLog, rwReaders, todo, encFails>>

Call(p, o) == CallWithin(p, o, MaxEvents)

\* commandHandler "schedule": bot.db.Set(i.ChannelID, hour)
CmdSchedule(p) ==
    /\ \E c \in Channels, h \in Hours : Call(p, Op("Set", c, h, 0))
    /\ UNCHANGED schedVars

\* commandHandler "stop": bot.db.Remove(i.ChannelID)
CmdStop(p) ==
    /\ \E c \in Channels : Call(p, Op("Remove", c, 0, 0))
    /\ UNCHANGED schedVars

\* Bot.get (commands today, random, specific): bot.db.Sent(ChannelID, resp.Date)
CmdGet(p) ==
    /\ \E c \in Channels, d \in Dates : Call(p, Op("Sent", c, 0, d))
    /\ UNCHANGED schedVars

\* the GuildDelete handler: bot.UpdateSchedule()
CmdUpdateSchedule(p) ==
    /\ Call(p, Op("RemoveIf", "", 0, 0))
    /\ UNCHANGED schedVars

\* ------------------------------------------------------------ Bot.RunScheduler
MaxRetries == 5

SchedIdle == dpc["sched"] = "idle"
TickVars(pc, date, embed, hour, keys, cur) ==
    /\ spc' = pc /\ sDate' = date /\ sEmbed' = embed /\ sHour' = hour
    /\ sTodo' = keys /\ sCur' = cur

\* a goroutine that is not a handler enters db.Lock()
Enter(p, o) ==
    /\ dpc[p] = "idle"
    /\ dop' = [dop EXCEPT ![p] = o]
    /\ dpc' = [dpc EXCEPT ![p] = "lock"]
    /\ UNCHANGED <<schedule, last, dbLog, rwW, rwReaders, todo, encFails>>

\* b.UpdateSchedule() before the loop
Sched_Start ==
    /\ spc = "start"
    /\ Enter("sched", Op("RemoveIf", "", 0, 0))
    /\ TickVars("sleep", 0, FALSE, 0, {}, "")

\* sleepUntilNextHour(); time.Sleep(time.Minute) are over
Sched_Tick ==
    /\ spc = "sleep" /\ SchedIdle
    /\ TickVars("retry", 0, FALSE, 0, {}, "")
    /\ UNCHANGED dbVars

\* apod.Retry(f): f is called until it succeeds, at most MaxRetries times.
\* outcomes[i] tells whether the i-th call of f would succeed; the result is
\* the number of calls made and whether the last one succeeded.
RECURSIVE RetryLoop(_, _)
RetryLoop(outcomes, i) ==
    IF i >= MaxRetries THEN [calls |-> i, ok |-> FALSE]
    ELSE IF outcomes[i + 1] THEN [calls |-> i + 1, ok |-> TRUE]
    ELSE RetryLoop(outcomes, i + 1)

\* a Retry that calls f up to six times
Retry_SixCalls(outcomes) ==
    IF \E i \in 1..(MaxRetries + 1) : outcomes[i]
    THEN [calls |-> CHOOSE i \in 1..(MaxRetries + 1) :
                      outcomes[i] /\ \A j \in 1..(i - 1) : ~outcomes[j],
          ok |-> TRUE]
    ELSE [calls |-> MaxRetries + 1, ok |-> FALSE]

Retry(outcomes) == RetryLoop(outcomes, 0)

MaxF == 6
MaxFiles == 2

\* a caller runs apod.Retry(f) to its end
Retry_Run ==
    /\ rpc = "call"
    /\ rpc' = "ret"
    /\ rRet' = Retry(rOutcomes)
    /\ UNCHANGED rOutcomes

InitRetryIdle ==
    /\ rOutcomes = <<>> /\ rpc = "idle" /\ rRet = [calls |-> 0, ok |-> FALSE]

\* an f of which each call may fail or succeed
InitRetry ==
    /\ rOutcomes \in [1..MaxF -> BOOLEAN]
    /\ rpc = "call" /\ rRet = [calls |-> 0, ok |-> FALSE]

NoRange == [none |-> TRUE]

InitScanIdle ==
    /\ scanHas = {} /\ scanToday = 0 /\ scanPc = "idle" /\ scanRet = NoRange

InitCcIdle ==
    /\ ccKind = "none"
    /\ ccPc = [p \in Callers |-> "idle"] /\ ccKey = [p \in Callers |-> 0]
    /\ ccW = None /\ ccReaders = {} /\ ccKeys = {} /\ ccFault = FALSE

NoDirRet == [op |-> "none"]

InitDirIdle ==
    /\ dirReady = {} /\ dirFiles = EmptyMap /\ dirRet = NoDirRet

InitFnIdle == InitRetryIdle /\ InitScanIdle /\ InitCcIdle /\ InitDirIdle

\* res, err := apod.Retry(b.apod.Today): Today answers a record of some
\* date or an error; when Retry returns an error the tick is given up
Sched_Retry ==
    /\ spc = "retry"
    /\ \E outcomes \in [1..MaxRetries -> BOOLEAN] :
         IF Retry(outcomes).ok
         THEN \E d \in Dates : TickVars("embed", d, FALSE, 0, {}, "")
         ELSE TickVars("sleep", 0, FALSE, 0, {}, "")
    /\ UNCHANGED dbVars

\* embed, file := b.ToEmbed(res)
Sched_ToEmbed ==
    /\ spc = "embed"
    /\ \E e \in BOOLEAN : TickVars("view", sDate, e, 0, {}, "")
    /\ UNCHANGED dbVars

\* hour := time.Now().UTC().Hour(), then DB.View: db.RLock()
Sched_ViewRLock ==
    /\ spc = "view"
    /\ RWCanRLock
    /\ rwReaders' = rwReaders \cup {"sched"}
    /\ \E h \in Hours : TickVars("iter", sDate, sEmbed, h, DOMAIN schedule, "")
    /\ UNCHANGED <<schedule, last, dbLog, rwW, dpc, dop, todo, encFails>>
    /\ UNCHANGED <<apodVars, imgVars>>

\* DB.View with a callback that sends whatever the hour of the channel is
Sched_ViewNext_AnyHour ==
    /\ spc = "iter" /\ SchedIdle
    /\ \E c \in sTodo : TickVars("send", sDate, sEmbed, sHour, sTodo \ {c}, c)
    /\ UNCHANGED dbVars

\* DB.View: the range loop calls f(channelID, hour); the callback goes on
\* to send when hour == hourToSend
Sched_ViewNext ==
    /\ spc = "iter" /\ SchedIdle
    /\ \E c \in sTodo :
         IF sHour = schedule[c]
         THEN TickVars("send", sDate, sEmbed, sHour, sTodo \ {c}, c)
         ELSE TickVars("iter", sDate, sEmbed, sHour, sTodo \ {c}, "")
    /\ UNCHANGED dbVars

\* the callback: ChannelMessageSendComplex, then b.db.Sent when err == nil
Sched_Send ==
    /\ spc = "send"
    /\ \E sent \in BOOLEAN :
         IF sent
         THEN Enter("sched", Op("Sent", sCur, 0, sDate))
         ELSE UNCHANGED dbVars
    /\ TickVars("iter", sDate, sEmbed, sHour, sTodo, "")

\* DB.View: the loop is over, db.RUnlock(); RunScheduler loops
Sched_ViewRUnlock ==
    /\ spc = "iter" /\ SchedIdle
    /\ sTodo = {}
    /\ rwReaders' = rwReaders \ {"sched"}
    /\ TickVars("sleep", 0, FALSE, 0, {}, "")
    /\ UNCHANGED <<schedule, last, dbLog, rwW, dpc, dop, todo, encFails>>

\* ------------------------------------------------------------ Bot.RunScheduler (bot.go)
Second == 1
Hour == 3600

\* sleepUntilNextHour() is over; backOff := time.Second
Backoff_Tick ==
    /\ spc = "sleep" /\ SchedIdle
    /\ TickVars("retry", 0, FALSE, 0, {}, "")
    /\ backOff' = Second
    /\ UNCHANGED dbVars

\* one turn of the inner loop: res, err = b.apod.Today(); the loop ends when
\* err == nil or backOff > time.Hour, and RunScheduler returns when it ends
\* with an error; otherwise time.Sleep(backOff) and backOff *= 2
Backoff_Today ==
    /\ spc = "retry"
    /\ \E ok \in BOOLEAN :
         IF ok
         THEN /\ \E d \in Dates : TickVars("embed", d, FALSE, 0, {}, "")
              /\ UNCHANGED backOff
         ELSE IF backOff > Hour
         THEN /\ TickVars("returned", 0, FALSE, 0, {}, "")
              /\ UNCHANGED backOff
         ELSE /\ TickVars("retry", 0, FALSE, 0, {}, "")
              /\ backOff' = backOff * 2
    /\ UNCHANGED dbVars

\* ------------------------------------------------------------ AppendOnly record cache
Days == 0..MaxDay
Vers == 1..MaxVer

\* *Response: nil, or a record of the upstream; Ver stands for the fields
\* other than Date (title, url, explanation, ...)
NoRecord == [nil |-> TRUE]
Response(d, v) == [nil |-> FALSE, Date |-> d, Ver |-> v]
Records == {Response(d, v) : d \in Days, v \in Vers}
GetDate(r) == r.Date

\* json.Encoder.Encode(response): the fields under their json tags; the key
\* the record was added under is not part of the line
MarshalResponse(r) == [date |-> r.Date, body |-> r.Ver]
UnmarshalResponse(line) == Response(line.date, line.body)

\* AppendOnly.load: every decoded record is stored under response.GetDate()
RECURSIVE CacheLoad(_, _)
CacheLoad(m, lines) ==
    IF lines = <<>> THEN m
    ELSE LET response == UnmarshalResponse(Head(lines))
         IN CacheLoad(MapPut(m, GetDate(response), response), Tail(lines))

NewAppendCache(lines) == CacheLoad(EmptyMap, lines)

\* AppendOnly.load with its error: Decode fails on a line cut short, and
\* load returns every error but io.EOF
RECURSIVE AppendOnlyLoadFrom(_, _)
AppendOnlyLoadFrom(st, lines) ==
    IF lines = <<>> \/ st.status # "ok" THEN st
    ELSE IF IsTruncated(Head(lines)) THEN [st EXCEPT !.status = "error"]
    ELSE LET response == UnmarshalResponse(Head(lines))
         IN AppendOnlyLoadFrom([st EXCEPT !.cache = MapPut(@, GetDate(response), response)],
                               Tail(lines))

AppendOnlyLoad(lines) == AppendOnlyLoadFrom([status |-> "ok", cache |-> EmptyMap], lines)

\* the cache as a value: the map, the file, and the error of the last call
CacheState == [cache |-> cache, log |-> cacheLog, err |-> FALSE]

\* AppendOnly.Add(date, response): c.cache[date] = response, then Encode
CacheAdd(st, date, response, ok) ==
    [cache |-> MapPut(st.cache, date, response),
     log |-> IF ok THEN Append(st.log, MarshalResponse(response)) ELSE st.log,
     err |-> ~ok]

\* a lookup that misses every date
CacheHas_Never(m, date) == FALSE

\* AppendOnly.Has and the ok result of AppendOnly.Get
CacheHas(m, date) == date \in DOMAIN m

\* cache.AddAll: Add in the order of the slice, stop at the first error.
\* failAt is the index of the Add whose Encode fails (0: none fails)
RECURSIVE AddAllFrom(_, _, _, _)
AddAllFrom(st, responses, i, failAt) ==
    IF i > Len(responses) THEN [st EXCEPT !.err = FALSE]
    ELSE LET st1 == CacheAdd(st, GetDate(responses[i]), responses[i], i # failAt)
         IN IF st1.err THEN st1 ELSE AddAllFrom(st1, responses, i + 1, failAt)

\* an AddAll that adds nothing and reports no error
AddAll_Nothing(st, responses, failAt) == [st EXCEPT !.err = FALSE]

AddAll(st, responses, failAt) == AddAllFrom(st, responses, 1, failAt)

\* the cache after a call that left it in state st
SetCache(st) ==
    /\ cache' = st.cache
    /\ cacheLog' = st.log
    /\ cacheFailed' = (cacheFailed \/ st.err)

\* a direct call of AppendOnly.Add(key, value)
Cache_Add ==
    /\ Len(cacheLog) < MaxAdds
    /\ \E key \in Days, value \in Records, ok \in BOOLEAN :
         SetCache(CacheAdd(CacheState, key, value, ok))
    /\ UNCHANGED <<upToday, upVer, upFault, clientVars, fillVars>>
    /\ UNCHANGED <<botVars, imgVars>>

\* ------------------------------------------------------------ the upstream API
\* the records of the dates in 0..upToday, oldest first, at the present revision
RECURSIVE RangeOf(_, _, _)
RangeOf(S, d, e) ==
    IF d > e THEN <<>>
    ELSE (IF d \in S THEN <<Response(d, upVer)>> ELSE <<>>) \o RangeOf(S, d + 1, e)

\* the upstream revises its records
Upstream_Revise ==
    /\ upVer < MaxVer
    /\ upVer' = upVer + 1
    /\ UNCHANGED <<cache, cacheLog, cacheFailed, upToday, upFault, clientVars, fillVars>>
    /\ UNCHANGED <<botVars, imgVars>>

\* an hour passes since a.lastUpdate
HourPasses ==
    /\ fresh
    /\ fresh' = FALSE
    /\ UNCHANGED <<current, gpc, gDate, gRet, gReq, got, hOps, tpc, tOps>>
    /\ UNCHANGED <<cacheVars, fillVars, botVars, imgVars>>

\* ------------------------------------------------------------ APOD client
RangeCap == 30

\* IsValidDate: the date parses and is after 1995-06-16
IsValidDate(d) == d > 0

\* time.Time.Before
Before(d, e) == d < e

\* the memo test of APOD.Today
MemoFresh == ~current.nil /\ fresh

HandlerVars(pc, date, ret, req) ==
    /\ gpc' = pc /\ gDate' = date /\ gRet' = ret /\ gReq' = req

\* a command handler calls APOD.Get(date): the validity test and the cache
\* lookup
Cmd_Get ==
    /\ gpc = "idle" /\ hOps < MaxGets
    /\ hOps' = hOps + 1
    /\ \E d \in Days :
         IF ~IsValidDate(d) THEN HandlerVars("getRet", d, NoRecord, FALSE)
         ELSE IF CacheHas(cache, d) THEN HandlerVars("getRet", d, cache[d], FALSE)
         ELSE HandlerVars("getReq", d, NoRecord, FALSE)
    /\ UNCHANGED <<current, fresh, got, tpc, tOps>>
    /\ UNCHANGED <<cacheVars, fillVars, botVars, imgVars>>

\* APOD.Get: singleRequest for the date, then a.cache.Add(response.Date, response)
Get_Request ==
    /\ gpc = "getReq"
    /\ \E up \in BOOLEAN, ok \in BOOLEAN :
         IF up /\ gDate <= upToday
         THEN LET response == Response(gDate, upVer)
              IN /\ SetCache(CacheAdd(CacheState, response.Date, response, ok))
                 /\ HandlerVars("getRet", gDate, response, TRUE)
                 /\ UNCHANGED upFault
         ELSE /\ ok
              /\ HandlerVars("getRet", gDate, NoRecord, TRUE)
              /\ upFault' = TRUE
              /\ UNCHANGED <<cache, cacheLog, cacheFailed>>
    /\ UNCHANGED <<upToday, upVer, current, fresh, got, hOps, tpc, tOps>>
    /\ UNCHANGED <<fillVars, botVars, imgVars>>

\* APOD.Get returns to the handler
Get_Return ==
    /\ gpc = "getRet"
    /\ got' = IF ~gRet.nil /\ gDate \notin DOMAIN got THEN MapPut(got, gDate, gRet) ELSE got
    /\ HandlerVars("idle", 0, NoRecord, FALSE)
    /\ UNCHANGED <<current, fresh, hOps, tpc, tOps>>
    /\ UNCHANGED <<cacheVars, fillVars, botVars, imgVars>>

\* the scheduler (or a command handler) calls APOD.Today: the memo test; a
\* fresh memo is returned at once
Cmd_Today ==
    /\ tpc = "idle" /\ tOps < MaxTodays
    /\ tOps' = tOps + 1
    /\ tpc' = IF MemoFresh THEN "idle" ELSE "todayReq"
    /\ UNCHANGED <<current, fresh, gpc, gDate, gRet, gReq, got, hOps>>
    /\ UNCHANGED <<cacheVars, fillVars, botVars, imgVars>>

\* APOD.Today: singleRequest without a date; on success the memo, its time
\* stamp and the cache are written
TodayRequest(up, ok) ==
    IF up
    THEN LET response == Response(upToday, upVer)
         IN /\ current' = response
            /\ fresh' = TRUE
            /\ SetCache(CacheAdd(CacheState, response.Date, response, ok))
            /\ UNCHANGED upFault
    ELSE /\ ok
         /\ upFault' = TRUE
         /\ UNCHANGED <<current, fresh, cache, cacheLog, cacheFailed>>

Today_Request ==
    /\ tpc = "todayReq"
    /\ \E up \in BOOLEAN, ok \in BOOLEAN : TodayRequest(up, ok)
    /\ tpc' = "idle"
    /\ UNCHANGED <<upToday, upVer, gpc, gDate, gRet, gReq, got, hOps, tOps>>
    /\ UNCHANGED <<fillVars, botVars, imgVars>>

\* ------------------------------------------------------------ APOD.Fill
FillVars(pc, today, d, end) ==
    /\ fpc' = pc /\ fToday' = today /\ fD' = d /\ fEnd' = end

\* Fill is called: todayResp, err := a.Today(), the memo test
Fill_Start ==
    /\ fpc = "start"
    /\ fPre' = DOMAIN cache
    /\ IF MemoFresh
       THEN FillVars("pass1", current.Date, 0, 0)
       ELSE FillVars("todayReq", 0, 0, 0)
    /\ UNCHANGED <<fUp, fUpToday, fUnpaced>>
    /\ UNCHANGED <<cacheVars, clientVars, botVars, imgVars>>

\* a.Today()'s request; Fill returns when it fails
Fill_TodayRequest ==
    /\ fpc = "todayReq"
    /\ fUpToday' = fUpToday + 1
    /\ \E up \in BOOLEAN, ok \in BOOLEAN :
         /\ TodayRequest(up, ok)
         /\ IF up
            THEN FillVars("pass1", upToday, 0, 0)
            ELSE FillVars("done", 0, 0, 0)
    /\ UNCHANGED <<upToday, upVer, gpc, gDate, gRet, gReq, got, hOps, tpc, tOps, fPre, fUp, fUnpaced>>
    /\ UNCHANGED <<botVars, imgVars>>

\* pass 1, the head of the loop: d.Before(today), then a.cache.Has(d)
Fill_Pass1 ==
    /\ fpc = "pass1"
    /\ IF ~Before(fD, fToday) THEN FillVars("pass2", fToday, 0, 0)
       ELSE IF CacheHas(cache, fD) THEN FillVars("pass1", fToday, fD + 1, 0)
       ELSE FillVars("scan", fToday, fD, fD + 1)
    /\ UNCHANGED <<fPre, fUp, fUpToday, fUnpaced>>
    /\ UNCHANGED <<cacheVars, clientVars, botVars, imgVars>>

\* pass 1, the condition of the loop that searches for the end of the gap
ScanMore(hasEnd, d, end, today) ==
    ~hasEnd /\ end - d < RangeCap /\ Before(end, today)

\* pass 1, the search for the end of the gap
Fill_Scan ==
    /\ fpc = "scan"
    /\ IF ScanMore(CacheHas(cache, fEnd), fD, fEnd, fToday)
       THEN FillVars("scan", fToday, fD, fEnd + 1)
       ELSE FillVars("range", fToday, fD, fEnd)
    /\ UNCHANGED <<fPre, fUp, fUpToday, fUnpaced>>
    /\ UNCHANGED <<cacheVars, clientVars, botVars, imgVars>>

\* pass 1, a.rangeRequest(d, end): the upstream fails, or answers the records
\* of the dates S it has in the range, which AddAll adds; on an error the loop
\* continues from d + 1 at once, otherwise d = end and the 5 second sleep follow
Fill_RangeRequest ==
    /\ fpc = "range"
    /\ fUp' = fUp + 1
    /\ fUnpaced' = "range"
    /\ \E up \in BOOLEAN, S \in SUBSET (fD..fEnd), failAt \in 0..(fEnd - fD + 1) :
         IF up
         THEN LET responses == RangeOf(S \cap (0..upToday), fD, fEnd)
                  st == AddAll(CacheState, responses, failAt)
              IN /\ failAt <= Len(responses)
                 /\ SetCache(st)
                 /\ upFault' = (upFault \/ Len(responses) # fEnd - fD + 1)
                 /\ IF st.err
                    THEN FillVars("pass1", fToday, fD + 1, 0)
                    ELSE FillVars("sleep5", fToday, fEnd, 0)
         ELSE /\ S = {} /\ failAt = 0
              /\ upFault' = TRUE
              /\ FillVars("pass1", fToday, fD + 1, 0)
              /\ UNCHANGED <<cache, cacheLog, cacheFailed>>
    /\ UNCHANGED <<upToday, upVer, clientVars, fPre, fUpToday>>
    /\ UNCHANGED <<botVars, imgVars>>

\* pass 1 on its own: the end of the gap that starts at d, and the first
\* range [d, end] the loop requests, over a cache that holds the dates has
RECURSIVE GapEnd(_, _, _, _)
GapEnd(has, d, end, today) ==
    IF ScanMore(end \in has, d, end, today) THEN GapEnd(has, d, end + 1, today) ELSE end

RECURSIVE FirstRange(_, _, _)
FirstRange(has, d, today) ==
    IF ~Before(d, today) THEN NoRange
    ELSE IF d \in has THEN FirstRange(has, d + 1, today)
    ELSE [d |-> d, end |-> GapEnd(has, d, d + 1, today)]

Scan_Run ==
    /\ scanPc = "call"
    /\ scanPc' = "ret"
    /\ scanRet' = FirstRange(scanHas, 0, scanToday)
    /\ UNCHANGED <<scanHas, scanToday>>

\* today's record cached (Today has added it), and before today one gap
\* lo .. hi - 1 in a cache that holds every other date
InitScan ==
    /\ scanToday \in 1..MaxSpan
    /\ \E lo \in 0..scanToday, hi \in 0..scanToday :
         scanHas = (0..scanToday) \ (lo..(hi - 1))
    /\ scanToday \in scanHas
    /\ scanPc = "call" /\ scanRet = NoRange

\* pass 1, time.Sleep(5 * time.Second) and the loop's d = d.AddDate(0, 0, 1)
Fill_Sleep5 ==
    /\ fpc = "sleep5"
    /\ FillVars("pass1", fToday, fD + 1, 0)
    /\ fUnpaced' = "none"
    /\ UNCHANGED <<fPre, fUp, fUpToday>>
    /\ UNCHANGED <<cacheVars, clientVars, botVars, imgVars>>

\* pass 2, the head of the loop: d.Before(today), then a.cache.Has(d)
Fill_Pass2 ==
    /\ fpc = "pass2"
    /\ IF ~Before(fD, fToday) THEN FillVars("done", fToday, 0, 0)
       ELSE IF CacheHas(cache, fD) THEN FillVars("pass2", fToday, fD + 1, 0)
       ELSE FillVars("get", fToday, fD, 0)
    /\ UNCHANGED <<fPre, fUp, fUpToday, fUnpaced>>
    /\ UNCHANGED <<cacheVars, clientVars, botVars, imgVars>>

\* pass 2, a.Get(d): the validity test (its error makes the loop continue)
\* and the cache lookup (a hit returns without an error)
Fill_Get ==
    /\ fpc = "get"
    /\ IF ~IsValidDate(fD) THEN FillVars("pass2", fToday, fD + 1, 0)
       ELSE IF CacheHas(cache, fD) THEN FillVars("sleep1", fToday, fD, 0)
       ELSE FillVars("single", fToday, fD, 0)
    /\ UNCHANGED <<fPre, fUp, fUpToday, fUnpaced>>
    /\ UNCHANGED <<cacheVars, clientVars, botVars, imgVars>>

\* a pass 2 whose fetch drops the record it received
Fill_SingleRequest_NoAdd ==
    /\ fpc = "single"
    /\ fUp' = fUp + 1
    /\ fUnpaced' = "single"
    /\ \E up \in BOOLEAN :
         IF up /\ fD <= upToday
         THEN /\ UNCHANGED upFault
              /\ FillVars("sleep1", fToday, fD, 0)
         ELSE /\ upFault' = TRUE
              /\ FillVars("pass2", fToday, fD + 1, 0)
    /\ UNCHANGED <<cache, cacheLog, cacheFailed>>
    /\ UNCHANGED <<upToday, upVer, clientVars, fPre, fUpToday>>
    /\ UNCHANGED <<botVars, imgVars>>

\* pass 2, a.Get(d): singleRequest and a.cache.Add(response.Date, response)
Fill_SingleRequest ==
    /\ fpc = "single"
    /\ fUp' = fUp + 1
    /\ fUnpaced' = "single"
    /\ \E up \in BOOLEAN, ok \in BOOLEAN :
         IF up /\ fD <= upToday
         THEN LET response == Response(fD, upVer)
              IN /\ SetCache(CacheAdd(CacheState, response.Date, response, ok))
                 /\ UNCHANGED upFault
                 /\ FillVars("sleep1", fToday, fD, 0)
         ELSE /\ ok
              /\ upFault' = TRUE
              /\ UNCHANGED <<cache, cacheLog, cacheFailed>>
              /\ FillVars("pass2", fToday, fD + 1, 0)
    /\ UNCHANGED <<upToday, upVer, clientVars, fPre, fUpToday>>
    /\ UNCHANGED <<botVars, imgVars>>

\* pass 2, time.Sleep(1 * time.Second) and the loop's d = d.AddDate(0, 0, 1)
Fill_Sleep1 ==
    /\ fpc = "sleep1"
    /\ FillVars("pass2", fToday, fD + 1, 0)
    /\ fUnpaced' = "none"
    /\ UNCHANGED <<fPre, fUp, fUpToday>>
    /\ UNCHANGED <<cacheVars, clientVars, botVars, imgVars>>

\* ------------------------------------------------------------ record cache: specifications
RECURSIVE LinesOf(_, _)
LinesOf(m, d) ==
    IF d > MaxDay THEN <<>>
    ELSE (IF d \in DOMAIN m THEN <<MarshalResponse(m[d])>> ELSE <<>>) \o LinesOf(m, d + 1)

ClientIdle ==
    /\ current = NoRecord /\ fresh = FALSE
    /\ gpc = "idle" /\ gDate = 0 /\ gRet = NoRecord /\ gReq = FALSE
    /\ got = EmptyMap /\ hOps = 0
    /\ tpc = "idle" /\ tOps = 0
    /\ fpc = "start" /\ fToday = 0 /\ fD = 0 /\ fEnd = 0
    /\ fPre = {} /\ fUp = 0 /\ fUpToday = 0 /\ fUnpaced = "none"

\* an empty cache file and a client nobody has called
InitApodIdle ==
    /\ cache = EmptyMap /\ cacheLog = <<>> /\ cacheFailed = FALSE
    /\ upToday = 0 /\ upVer = 1 /\ upFault = FALSE
    /\ ClientIdle

\* NewAppendCache over a cache file that holds records of some dates up to
\* today; NewClient
InitApod ==
    /\ upToday \in 1..MaxDay
    /\ upVer = 1 /\ upFault = FALSE
    /\ \E S \in SUBSET (0..upToday) :
         /\ cacheLog = LinesOf([d \in S |-> Response(d, 1)], 0)
         /\ cache = NewAppendCache(cacheLog)
    /\ cacheFailed = FALSE
    /\ ClientIdle

FillStep ==
    \/ Fill_Start
    \/ Fill_TodayRequest
    \/ Fill_Pass1
    \/ Fill_Scan
    \/ Fill_RangeRequest
    \/ Fill_Sleep5
    \/ Fill_Pass2
    \/ Fill_Get
    \/ Fill_SingleRequest
    \/ Fill_Sleep1

GetStep ==
    \/ Cmd_Get
    \/ Get_Request
    \/ Get_Return

TodayStep ==
    \/ Cmd_Today
    \/ Today_Request

\* Fill beside the callers of Today
NextApod ==
    \/ FillStep
    \/ TodayStep
    \/ HourPasses

\* the command handlers beside the callers of Today, the upstream changing
NextGet ==
    \/ GetStep
    \/ TodayStep
    \/ HourPasses
    \/ Upstream_Revise

\* ------------------------------------------------------------ image transcoding
QualityMax == 100
QualityStep == 5

Formats == {"png", "jpeg"}

\* a byte slice: what it encodes and how long it is
Buffer(enc, quality, len) == [enc |-> enc, quality |-> quality, len |-> len]
NoBytes == Buffer("nil", 0, 0)
Original(len) == Buffer("orig", 0, len)

\* what a call returned; Resize returns the error alone
Ret(bytes, format, err) == [bytes |-> bytes, format |-> format, err |-> err]
NoRet == Ret(NoBytes, "", FALSE)

ImageVars(pc, bytes, max, quality, ret) ==
    /\ ipc' = pc /\ iBytes' = bytes /\ iMax' = max /\ iQuality' = quality /\ iRet' = ret
    /\ UNCHANGED <<iFormat, iDecodes>>

\* i.Resize(maxBytes) is called on a wrapper NewImageWrapper has decoded
Resize_Call ==
    /\ ipc \in {"idle", "ResizeRet"} /\ iDecodes
    /\ \E maxBytes \in 0..MaxLen :
         IF iBytes.len <= maxBytes
         THEN ImageVars("ResizeRet", iBytes, maxBytes, 0, Ret(NoBytes, "", FALSE))
         ELSE ImageVars("Resize", iBytes, maxBytes, QualityMax, NoRet)
    /\ UNCHANGED <<iBuf, botVars, apodVars, auxVars>>

\* Resize, one turn of the loop: jpeg.Encode at the quality (n bytes, or an
\* error); after the last turn Resize returns nil
Resize_Encode ==
    /\ ipc = "Resize"
    /\ IF iQuality > 0
       THEN \E failed \in BOOLEAN, n \in 1..(MaxLen + 1) :
              IF failed
              THEN n = 1 /\ ImageVars("ResizeRet", iBytes, iMax, 0, Ret(NoBytes, "", TRUE))
              ELSE IF n <= iMax
              THEN ImageVars("ResizeRet", Buffer("jpeg", iQuality, n), iMax, 0, Ret(NoBytes, "", FALSE))
              ELSE ImageVars("Resize", iBytes, iMax, iQuality - QualityStep, NoRet)
       ELSE ImageVars("ResizeRet", iBytes, iMax, 0, Ret(NoBytes, "", FALSE))
    /\ UNCHANGED <<iBuf, botVars, apodVars, auxVars>>

\* bytes.Buffer: Len, Bytes (one encoding, or several run together) and Reset
RECURSIVE BufLen(_)
BufLen(buf) == IF buf = <<>> THEN 0 ELSE Head(buf).len + BufLen(Tail(buf))

BufBytes(buf) ==
    IF buf = <<>> THEN NoBytes
    ELSE IF Len(buf) = 1 THEN buf[1]
    ELSE Buffer("joined", 0, BufLen(buf))

BufReset(buf) == <<>>

\* resizeImage(img, maxSize) is called: image.Decode, buf := new(bytes.Buffer),
\* then the length test
resizeImage_Call ==
    /\ ipc = "idle"
    /\ \E maxSize \in 0..MaxLen :
         IF ~iDecodes
         THEN /\ ImageVars("resizeImageRet", iBytes, maxSize, 0, Ret(NoBytes, iFormat, TRUE))
              /\ UNCHANGED iBuf
         ELSE /\ iBuf' = <<>>
              /\ IF iBytes.len < maxSize
                 THEN ImageVars("resizeImageRet", iBytes, maxSize, 0, Ret(iBytes, iFormat, FALSE))
                 ELSE ImageVars("resizeImage", iBytes, maxSize, QualityMax, NoRet)
    /\ UNCHANGED <<botVars, apodVars, auxVars>>

\* resizeImage, one turn of the loop: buf.Reset(), jpeg.Encode into buf (n
\* bytes, or an error), the test of buf.Len(); after the last turn it returns
\* an error
resizeImage_Encode ==
    /\ ipc = "resizeImage"
    /\ IF iQuality > 0
       THEN \E failed \in BOOLEAN, n \in 1..(MaxLen + 1) :
              IF failed
              THEN /\ n = 1
                   /\ iBuf' = BufReset(iBuf)
                   /\ ImageVars("resizeImageRet", iBytes, iMax, 0, Ret(NoBytes, "jpeg", TRUE))
              ELSE LET buf == Append(BufReset(iBuf), Buffer("jpeg", iQuality, n))
                   IN /\ iBuf' = buf
                      /\ IF BufLen(buf) < iMax
                         THEN ImageVars("resizeImageRet", iBytes, iMax, 0, Ret(BufBytes(buf), "jpeg", FALSE))
                         ELSE ImageVars("resizeImage", iBytes, iMax, iQuality - QualityStep, NoRet)
       ELSE /\ ImageVars("resizeImageRet", iBytes, iMax, 0, Ret(NoBytes, "", TRUE))
            /\ UNCHANGED iBuf
    /\ UNCHANGED <<botVars, apodVars, auxVars>>

\* ------------------------------------------------------------ MemoryImageCache
MaxCalls == 3
MaxCap == 3

\* an entry of c.Cache: its Date and len(Wrapper.Bytes)
memoryImageCacheEntry(date, len) == [Date |-> date, Len |-> len]

NewMemoryImageCache(maxSize) == [MaxSize |-> maxSize, Size |-> 0, Cache |-> <<>>]

\* the loop from c.Cache.Front(): the place of the first entry of the date,
\* 0 when the loop ends without one
MemFind(l, date) ==
    IF \E i \in 1..Len(l) : l[i].Date = date
    THEN CHOOSE i \in 1..Len(l) :
           l[i].Date = date /\ \A j \in 1..(i - 1) : l[j].Date # date
    ELSE 0

MoveToFront(l, i) == <<l[i]>> \o SubSeq(l, 1, i - 1) \o SubSeq(l, i + 1, Len(l))

\* c.Get(date): the cache after the call, len(wrapper.Bytes) and ok
MemGet(c, date) ==
    LET i == MemFind(c.Cache, date)
    IN  IF i > 0
        THEN [c |-> [c EXCEPT !.Cache = MoveToFront(c.Cache, i)], len |-> c.Cache[i].Len, ok |-> TRUE]
        ELSE [c |-> c, len |-> 0, ok |-> FALSE]

\* Set as a cache that stores the wrapper would end: the entry pushed to the
\* front and counted in Size
MemSet_Insert(c, date, len) ==
    LET i == MemFind(c.Cache, date)
    IN  IF i > 0
        THEN [c |-> [c EXCEPT !.Cache = <<memoryImageCacheEntry(date, len)>>
                                          \o SubSeq(c.Cache, 1, i - 1)
                                          \o SubSeq(c.Cache, i + 1, Len(c.Cache))],
              panic |-> FALSE]
        ELSE [c |-> [c EXCEPT !.Cache = <<memoryImageCacheEntry(date, len)>> \o c.Cache,
                              !.Size = c.Size + len],
              panic |-> FALSE]

\* c.Set(date, wrapper) with len(wrapper.Bytes) = len: an entry of the date is
\* moved to the front and given the wrapper, Size untouched; otherwise, when
\* Size >= MaxSize, the back of the list is removed (Remove(Back()) of an
\* empty list dereferences nil), and the call returns; nothing is inserted
MemSet(c, date, len) ==
    LET i == MemFind(c.Cache, date)
    IN  IF i > 0
        THEN [c |-> [c EXCEPT !.Cache = <<memoryImageCacheEntry(date, len)>>
                                          \o SubSeq(c.Cache, 1, i - 1)
                                          \o SubSeq(c.Cache, i + 1, Len(c.Cache))],
              panic |-> FALSE]
        ELSE IF c.Size >= c.MaxSize
        THEN IF c.Cache = <<>>
             THEN [c |-> c, panic |-> TRUE]
             ELSE [c |-> [c EXCEPT !.Cache = SubSeq(c.Cache, 1, Len(c.Cache) - 1),
                                   !.Size = c.Size - c.Cache[Len(c.Cache)].Len],
                   panic |-> FALSE]
        ELSE [c |-> c, panic |-> FALSE]

\* the total of len(Wrapper.Bytes) over a list of entries
RECURSIVE TotalLen(_)
TotalLen(l) == IF l = <<>> THEN 0 ELSE l[1].Len + TotalLen(Tail(l))

\* a least-recently-used list of capacity max, to compare with: entries are
\* dropped from the back until the rest fits
RECURSIVE LruFit(_, _)
LruFit(l, max) ==
    IF l # <<>> /\ TotalLen(l) > max THEN LruFit(SubSeq(l, 1, Len(l) - 1), max) ELSE l

LruWithout(l, date) == SelectSeq(l, LAMBDA e : e.Date # date)
LruHas(l, date) == \E i \in 1..Len(l) : l[i].Date = date
LruSet(l, max, date, len) ==
    LruFit(<<memoryImageCacheEntry(date, len)>> \o LruWithout(l, date), max)
LruGet(l, date) ==
    IF LruHas(l, date)
    THEN SelectSeq(l, LAMBDA e : e.Date = date) \o LruWithout(l, date)
    ELSE l

MemCall(op, date, len, ok, want) ==
    [op |-> op, date |-> date, len |-> len, ok |-> ok, want |-> want]
NoCall == MemCall("none", 0, 0, FALSE, FALSE)

\* a caller stores the image of a date
Mem_Set ==
    /\ ~micPanicked /\ micCalls < MaxCalls
    /\ \E date \in Days, len \in 1..MaxLen :
         LET r == MemSet(mic, date, len)
         IN  /\ mic' = r.c
             /\ micPanicked' = r.panic
             /\ micCall' = MemCall("Set", date, len, ~r.panic, TRUE)
             /\ micUsed' = LruSet(micUsed, mic.MaxSize, date, len)
    /\ micCalls' = micCalls + 1
    /\ micFetched' = FALSE
    /\ UNCHANGED memRest

\* a caller asks for the image of a date
Mem_Get ==
    /\ ~micPanicked /\ micCalls < MaxCalls
    /\ \E date \in Days :
         LET r == MemGet(mic, date)
         IN  /\ mic' = r.c
             /\ micCall' = MemCall("Get", date, r.len, r.ok, LruHas(micUsed, date))
             /\ micUsed' = LruGet(micUsed, date)
    /\ micCalls' = micCalls + 1
    /\ micFetched' = FALSE
    /\ UNCHANGED <<micPanicked, memRest>>

\* GetOrSetImage(cache, date, getImage) on the MemoryImageCache: cache.Get;
\* on a miss getImage(), which fails or returns a wrapper of some length,
\* and then cache.Set
Mem_GetOrSetImage ==
    /\ ~micPanicked /\ micCalls < MaxCalls
    /\ \E date \in Days, err \in BOOLEAN, len \in 1..MaxLen :
         LET g == MemGet(mic, date)
             r == MemSet(mic, date, len)
         IN  IF g.ok
             THEN /\ mic' = g.c
                  /\ micCall' = MemCall("GetOrSetImage", date, g.len, TRUE, TRUE)
                  /\ micUsed' = LruGet(micUsed, date)
                  /\ micFetched' = FALSE
                  /\ UNCHANGED micPanicked
             ELSE IF err
             THEN /\ micCall' = MemCall("GetOrSetImage", date, 0, FALSE, TRUE)
                  /\ micFetched' = TRUE
                  /\ UNCHANGED <<mic, micUsed, micPanicked>>
             ELSE /\ mic' = r.c
                  /\ micPanicked' = r.panic
                  /\ micCall' = MemCall("GetOrSetImage", date, len, ~r.panic, TRUE)
                  /\ micUsed' = LruSet(micUsed, mic.MaxSize, date, len)
                  /\ micFetched' = TRUE
    /\ micCalls' = micCalls + 1
    /\ UNCHANGED memRest

MemCallerIdle ==
    /\ micCall = NoCall /\ micCalls = 0 /\ micPanicked = FALSE /\ micUsed = <<>>
    /\ micFetched = FALSE

\* no MemoryImageCache is made (main makes a DirectoryImageCache)
InitMemIdle ==
    /\ mic = NewMemoryImageCache(0)
    /\ MemCallerIdle

\* NewMemoryImageCache(maxSize)
InitMem ==
    /\ \E maxSize \in 0..MaxCap : mic = NewMemoryImageCache(maxSize)
    /\ MemCallerIdle

NextMem ==
    \/ Mem_Set
    \/ Mem_Get

\* ------------------------------------------------------------ loading a log file
MaxLines == 2

\* the lines an event log may hold: those Encode writes, a line of a kind
\* load does not know, and lines of a known kind without its payload
EventLines ==
    {MarshalEvent(Event(EventTypeSet, SetEvent(c, h), NoPtr, NoPtr)) : c \in Channels, h \in Hours}
    \cup {MarshalEvent(Event(EventTypeRemove, NoPtr, RemoveEvent(c), NoPtr)) : c \in Channels}
    \cup {MarshalEvent(Event(EventTypeSent, NoPtr, NoPtr, SentEvent(c, d))) : c \in Channels, d \in Dates}
    \cup {[type |-> t, set |-> NoPtr, remove |-> NoPtr, sent |-> NoPtr] : t \in {"set", "remove", "sent", "other"}}

RecordLines == {MarshalResponse(r) : r \in Records}

\* files of up to MaxLines lines, the last of which may be cut short
FilesOf(L) ==
    UNION {[1..n -> L] : n \in 0..MaxLines}
    \cup UNION {{Append(f, TruncatedLine) : f \in [1..n -> L]} : n \in 0..(MaxLines - 1)}

NoLoad == [status |-> "none"]

LoadVars(pc, ret) ==
    /\ lpc' = pc /\ loaded' = ret
    /\ UNCHANGED <<fileOf, file>>

\* main: NewDB(file, file)
Load_NewDB ==
    /\ lpc = "start" /\ fileOf = "events"
    /\ LoadVars("done", NewDB(file))
    /\ UNCHANGED loadRest

\* NewClient: cache.NewAppendCache(file, file)
Load_NewAppendCache ==
    /\ lpc = "start" /\ fileOf = "records"
    /\ LoadVars("done", AppendOnlyLoad(file))
    /\ UNCHANGED loadRest

InitLoadIdle ==
    /\ fileOf = "none" /\ file = <<>> /\ lpc = "idle" /\ loaded = NoLoad

\* a log file as a run of the bot, or a crash in the middle of an append,
\* may leave it, or as somebody has edited it
InitLoad ==
    /\ fileOf \in {"events", "records"}
    /\ file \in FilesOf(IF fileOf = "events" THEN EventLines ELSE RecordLines)
    /\ lpc = "start" /\ loaded = NoLoad

NextLoad ==
    \/ Load_NewDB
    \/ Load_NewAppendCache

\* ------------------------------------------------------------ GetOrSetImage, ImageCache.GetOrSet

\* what a call returned: an image and no error, or an error
Got(img) == [img |-> img, err |-> FALSE]
GotErr == [img |-> 0, err |-> TRUE]
NoGot == [img |-> 0, err |-> FALSE]

\* the other caller's call on the date is running
Running(p, date) ==
    \E q \in Callers \ {p} : oPc[q] \notin {"idle", "ret"} /\ oDate[q] = date

\* caller p goes on: its position, date, image, result, and whether it has
\* invoked the fallback
GosVars(p, pc, date, img, ret, fetched) ==
    /\ oPc' = [oPc EXCEPT ![p] = pc]
    /\ oDate' = [oDate EXCEPT ![p] = date]
    /\ oImg' = [oImg EXCEPT ![p] = img]
    /\ oRet' = [oRet EXCEPT ![p] = ret]
    /\ oFetched' = [oFetched EXCEPT ![p] = fetched]
    /\ UNCHANGED oVia

\* GetOrSetImage(cache, date, getImage) is called: cache.Get(date)
GetOrSetImage_Get(p) ==
    /\ oVia = "GetOrSetImage" /\ oPc[p] = "idle"
    /\ \E date \in Days :
         /\ IF date \in DOMAIN store
            THEN GosVars(p, "ret", date, 0, Got(store[date]), FALSE)
            ELSE GosVars(p, "getImage", date, 0, NoGot, FALSE)
         /\ oOverlap' = (oOverlap \/ Running(p, date))
    /\ UNCHANGED <<store, oFetches, icW>>
    /\ UNCHANGED gosRest

\* wrapper, err = getImage(): the download and the transcoding
GetOrSetImage_getImage(p) ==
    /\ oPc[p] = "getImage"
    /\ \E ok \in BOOLEAN :
         IF ok
         THEN /\ GosVars(p, "Set", oDate[p], oFetches + 1, NoGot, TRUE)
              /\ oFetches' = oFetches + 1
         ELSE /\ GosVars(p, "ret", oDate[p], 0, GotErr, TRUE)
              /\ UNCHANGED oFetches
    /\ UNCHANGED <<oOverlap, store, icW>>
    /\ UNCHANGED gosRest

\* cache.Set(date, wrapper); return wrapper, nil
GetOrSetImage_Set(p) ==
    /\ oPc[p] = "Set"
    /\ store' = MapPut(store, oDate[p], oImg[p])
    /\ GosVars(p, "ret", oDate[p], oImg[p], Got(oImg[p]), TRUE)
    /\ UNCHANGED <<oOverlap, oFetches, icW>>
    /\ UNCHANGED gosRest

\* c.GetOrSet(day, fn) is called: RLock, the test of c.day, RUnlock
GetOrSet_RLock(p) ==
    /\ oVia = "GetOrSet" /\ oPc[p] = "idle"
    /\ icW = None
    /\ \E day \in Days :
         /\ IF day \in DOMAIN store
            THEN GosVars(p, "ret", day, 0, Got(store[day]), FALSE)
            ELSE GosVars(p, "Lock", day, 0, NoGot, FALSE)
         /\ oOverlap' = (oOverlap \/ Running(p, day))
    /\ UNCHANGED <<store, oFetches, icW>>
    /\ UNCHANGED gosRest

\* c.Lock() returns
GetOrSet_Lock(p) ==
    /\ oPc[p] = "Lock"
    /\ icW = None
    /\ icW' = p
    /\ GosVars(p, "fn", oDate[p], 0, NoGot, FALSE)
    /\ UNCHANGED <<oOverlap, store, oFetches>>
    /\ UNCHANGED gosRest

\* image, err := fn(); on an error the call returns with the lock held;
\* otherwise c.day and c.image are set (the one slot of the cache), Unlock
GetOrSet_fn(p) ==
    /\ oPc[p] = "fn"
    /\ \E ok \in BOOLEAN :
         IF ok
         THEN /\ GosVars(p, "ret", oDate[p], oFetches + 1, Got(oFetches + 1), TRUE)
              /\ oFetches' = oFetches + 1
              /\ store' = MapPut(EmptyMap, oDate[p], oFetches + 1)
              /\ icW' = None
         ELSE /\ GosVars(p, "ret", oDate[p], 0, GotErr, TRUE)
              /\ UNCHANGED <<oFetches, store, icW>>
    /\ UNCHANGED oOverlap
    /\ UNCHANGED gosRest

GosCallersIdle ==
    /\ oPc = [p \in Callers |-> "idle"]
    /\ oDate = [p \in Callers |-> 0]
    /\ oImg = [p \in Callers |-> 0]
    /\ oRet = [p \in Callers |-> NoGot]
    /\ oFetched = [p \in Callers |-> FALSE]
    /\ oOverlap = FALSE
    /\ oFetches = 0
    /\ icW = None

InitGosIdle ==
    /\ oVia = "none" /\ store = EmptyMap
    /\ GosCallersIdle

\* a DirectoryImageCache that holds the images of some dates, or an
\* ImageCache that holds one image or none
InitGos ==
    /\ oVia \in {"GetOrSetImage", "GetOrSet"}
    /\ \E S \in SUBSET Days :
         /\ oVia = "GetOrSet" => Cardinality(S) <= 1
         /\ store = [d \in S |-> 0]
    /\ GosCallersIdle

NextGos ==
    \E p \in Callers :
        \/ GetOrSetImage_Get(p)
        \/ GetOrSetImage_getImage(p)
        \/ GetOrSetImage_Set(p)
        \/ GetOrSet_RLock(p)
        \/ GetOrSet_Lock(p)
        \/ GetOrSet_fn(p)

\* no download
InitTransIdle ==
    /\ ipc = "idle" /\ iBytes = NoBytes /\ iFormat = "" /\ iDecodes = FALSE
    /\ iMax = 0 /\ iQuality = 0 /\ iRet = NoRet /\ iBuf = <<>>

\* none of the components that are checked on their own is in use
InitAuxIdle == InitMemIdle /\ InitLoadIdle /\ InitGosIdle /\ backOff = 0 /\ InitFnIdle

\* no image
InitImageIdle == InitTransIdle /\ InitAuxIdle

\* the bytes of a download: an image of some format, or bytes image.Decode
\* rejects
InitImage ==
    /\ ipc = "idle"
    /\ iDecodes \in BOOLEAN
    /\ \E n \in 0..MaxLen : iBytes = Original(n) /\ (iDecodes => n > 0)
    /\ iFormat \in IF iDecodes THEN Formats ELSE {""}
    /\ iMax = 0 /\ iQuality = 0 /\ iRet = NoRet /\ iBuf = <<>>
    /\ InitAuxIdle

NextImage ==
    \/ Resize_Call
    \/ Resize_Encode
    \/ resizeImage_Call
    \/ resizeImage_Encode

\* ------------------------------------------------------------ specification
InitBot ==
    /\ schedule = EmptyMap
    /\ last = EmptyMap
    /\ dbLog = <<>>
    /\ rwW = None
    /\ rwReaders = {}
    /\ dpc = [p \in Procs |-> "idle"]
    /\ dop = [p \in Procs |-> NoOp]
    /\ todo = [p \in Procs |-> {}]
    /\ encFails = 0
    /\ spc = "start" /\ sDate = 0 /\ sEmbed = FALSE /\ sHour = 0
    /\ sTodo = {} /\ sCur = ""

Init == InitBot /\ InitApodIdle /\ InitImageIdle

DBStep(p) ==
    /\ \/ RWLockBegin(p)
       \/ DB_Set(p)
       \/ DB_Remove(p)
       \/ DB_Sent(p)
       \/ DB_RemoveIfLock(p)
       \/ DB_RemoveIfStep(p)
       \/ DB_RemoveIfUnlock(p)
    /\ UNCHANGED <<apodVars, imgVars>>

SchedStep ==
    /\ \/ Sched_Start
       \/ Sched_Tick
       \/ Sched_Retry
       \/ Sched_ToEmbed
       \/ Sched_ViewRLock
       \/ Sched_ViewNext
       \/ Sched_Send
       \/ Sched_ViewRUnlock
    /\ UNCHANGED <<apodVars, imgVars>>

CmdStep(p) ==
    /\ \/ CmdSchedule(p)
       \/ CmdStop(p)
       \/ CmdGet(p)
       \/ CmdUpdateSchedule(p)
    /\ UNCHANGED <<apodVars, imgVars>>

Next ==
    \/ \E p \in Procs : DBStep(p)
    \/ \E p \in Handlers : CmdStep(p)
    \/ SchedStep

Spec == Init /\ [][Next]_vars

\* the client over a loaded cache file
InitFill == InitBot /\ InitApod /\ InitImageIdle

SpecApod == InitFill /\ [][NextApod]_vars

SpecGet == InitFill /\ [][NextGet]_vars

\* a downloaded image
InitTranscode == InitBot /\ InitApodIdle /\ InitImage

SpecImage == InitTranscode /\ [][NextImage]_vars

SpecCache == Init /\ [][Cache_Add]_vars

\* one command handler after the other on the schedule store, no scheduler
Store_Cmd(p) ==
    /\ \E o \in {Op("Set", c, h, 0) : c \in Channels, h \in Hours}
                \cup {Op("Remove", c, 0, 0) : c \in Channels}
                \cup {Op("Sent", c, 0, d) : c \in Channels, d \in Dates}
                \cup {Op("RemoveIf", "", 0, 0)} :
         CallWithin(p, o, MaxOps)
    /\ UNCHANGED <<schedVars, apodVars, imgVars>>

StoreStep(p) ==
    /\ \/ DB_Set(p)
       \/ DB_Remove(p)
       \/ DB_Sent(p)
       \/ DB_RemoveIfLock(p)
       \/ DB_RemoveIfStep(p)
       \/ DB_RemoveIfUnlock(p)
    /\ UNCHANGED <<apodVars, imgVars>>

NextStore == \E p \in Handlers : Store_Cmd(p) \/ StoreStep(p)

SpecStore == Init /\ [][NextStore]_vars

\* a MemoryImageCache and its callers
InitMemory == InitBot /\ InitApodIdle /\ InitTransIdle /\ InitMem /\ InitLoadIdle /\ InitGosIdle /\ backOff = 0 /\ InitFnIdle

SpecMem == InitMemory /\ [][NextMem]_vars

\* the callers of GetOrSetImage on a MemoryImageCache
NextMemImage ==
    \/ Mem_GetOrSetImage
    \/ Mem_Get
    \/ Mem_Set

SpecMemImage == InitMemory /\ [][NextMemImage]_vars

\* the load of a log file
InitLoading == InitBot /\ InitApodIdle /\ InitTransIdle /\ InitMemIdle /\ InitLoad /\ InitGosIdle /\ backOff = 0 /\ InitFnIdle

SpecLoad == InitLoading /\ [][NextLoad]_vars

\* two goroutines asking the image cache, one call each
InitImageCache == InitBot /\ InitApodIdle /\ InitTransIdle /\ InitMemIdle /\ InitLoadIdle /\ InitGos /\ backOff = 0 /\ InitFnIdle

SpecGos == InitImageCache /\ [][NextGos]_vars

\* a call of Retry
InitRetrying ==
    InitBot /\ InitApodIdle /\ InitTransIdle /\ InitMemIdle /\ InitLoadIdle /\ InitGosIdle
    /\ backOff = 0 /\ InitRetry /\ InitScanIdle /\ InitCcIdle /\ InitDirIdle

NextRetry == Retry_Run /\ UNCHANGED <<fnRest, scanVars, ccVars, dirVars>>

SpecRetry == InitRetrying /\ [][NextRetry]_vars

\* pass 1 of Fill searching its first gap
InitScanning ==
    InitBot /\ InitApodIdle /\ InitTransIdle /\ InitMemIdle /\ InitLoadIdle /\ InitGosIdle
    /\ backOff = 0 /\ InitRetryIdle /\ InitScan /\ InitCcIdle /\ InitDirIdle

NextScan == Scan_Run /\ UNCHANGED <<fnRest, retryVars, ccVars, dirVars>>

SpecScan == InitScanning /\ [][NextScan]_vars

\* ------------------------------------------------------------ DB.Set, Remove and Sent step by step
\* the event a Set, Remove or Sent call builds from its arguments
OpEvent(o) ==
    CASE o.kind = "Set" -> Event(EventTypeSet, SetEvent(o.ChannelID, o.Hour), NoPtr, NoPtr)
      [] o.kind = "Remove" -> Event(EventTypeRemove, NoPtr, RemoveEvent(o.ChannelID), NoPtr)
      [] OTHER -> Event(EventTypeSent, NoPtr, NoPtr, SentEvent(o.ChannelID, o.Date))

\* the calls made so far
DbCalls == Len(dbLog) + encFails + Cardinality({q \in Procs : dpc[q] # "idle"})

\* a goroutine calls db.Set, db.Remove or db.Sent
Atomic_Call(p) ==
    /\ dpc[p] = "idle" /\ DbCalls < MaxOps
    /\ \E k \in {"Set", "Remove", "Sent"}, c \in Channels, h \in Hours, d \in Dates :
         /\ (k = "Set" \/ h = 0) /\ (k = "Sent" \/ d = 0)
         /\ dop' = [dop EXCEPT ![p] = Op(k, c, h, d)]
    /\ dpc' = [dpc EXCEPT ![p] = "lock"]
    /\ UNCHANGED <<schedule, last, dbLog, rwW, rwReaders, todo, encFails>>
    /\ UNCHANGED <<schedVars, apodVars, imgVars>>

\* a method that goes on without the lock
Atomic_Lock_NoLock(p) ==
    /\ dpc[p] = "lock"
    /\ dpc' = [dpc EXCEPT ![p] = "crit"]
    /\ UNCHANGED <<schedule, last, dbLog, rwW, rwReaders, dop, todo, encFails>>
    /\ UNCHANGED <<schedVars, apodVars, imgVars>>

\* db.Lock() returns: no writer and no reader holds the lock
Atomic_Lock(p) ==
    /\ dpc[p] = "lock"
    /\ rwW = None /\ rwReaders = {}
    /\ rwW' = p
    /\ dpc' = [dpc EXCEPT ![p] = "crit"]
    /\ UNCHANGED <<schedule, last, dbLog, rwReaders, dop, todo, encFails>>
    /\ UNCHANGED <<schedVars, apodVars, imgVars>>

\* db.set, db.remove or db.sent: the event is applied to the maps
Atomic_Apply(p) ==
    /\ dpc[p] = "crit"
    /\ LET st == ApplyEvent(Live, OpEvent(dop[p]))
       IN schedule' = st.schedule /\ last' = st.last
    /\ dpc' = [dpc EXCEPT ![p] = "applied"]
    /\ UNCHANGED <<dbLog, rwW, rwReaders, dop, todo, encFails>>
    /\ UNCHANGED <<schedVars, apodVars, imgVars>>

\* db.encoder.Encode(event)
Atomic_Encode(p) ==
    /\ dpc[p] = "applied"
    /\ \E ok \in BOOLEAN :
         /\ dbLog' = Encode(dbLog, OpEvent(dop[p]), ok)
         /\ encFails' = encFails + (IF ok THEN 0 ELSE 1)
    /\ dpc' = [dpc EXCEPT ![p] = "unlock"]
    /\ UNCHANGED <<schedule, last, rwW, rwReaders, dop, todo>>
    /\ UNCHANGED <<schedVars, apodVars, imgVars>>

\* db.Unlock() and return
Atomic_Unlock(p) ==
    /\ dpc[p] = "unlock"
    /\ rwW' = IF rwW = p THEN None ELSE rwW
    /\ dpc' = [dpc EXCEPT ![p] = "idle"]
    /\ dop' = [dop EXCEPT ![p] = NoOp]
    /\ UNCHANGED <<schedule, last, dbLog, rwReaders, todo, encFails>>
    /\ UNCHANGED <<schedVars, apodVars, imgVars>>

\* two goroutines calling the methods of one DB
NextAtomic ==
    \E p \in Procs :
        \/ Atomic_Call(p)
        \/ Atomic_Lock(p)
        \/ Atomic_Apply(p)
        \/ Atomic_Encode(p)
        \/ Atomic_Unlock(p)

SpecAtomic == Init /\ [][NextAtomic]_vars

\* ------------------------------------------------------------ the caches under two callers
\* a call is in progress on the cache's map or list
CcBusy(q) == ccPc[q] \in {"read", "write"}

\* caller p starts a call with some date and goes on to read or to write
CcEnter(p, pc) ==
    /\ ccPc[p] = "idle" /\ ~ccFault
    /\ \E d \in Days : ccKey' = [ccKey EXCEPT ![p] = d]
    /\ ccPc' = [ccPc EXCEPT ![p] = pc]
    /\ UNCHANGED <<ccKind, ccKeys, ccFault>>
    /\ UNCHANGED <<fnRest, retryVars, scanVars, dirVars>>

\* AppendOnly.Add: c.Lock(), then c.cache[date] = response and Encode
AppendOnly_Add(p) ==
    /\ ccKind = "AppendOnly"
    /\ ccW = None /\ ccReaders = {}
    /\ CcEnter(p, "write")
    /\ ccW' = p
    /\ UNCHANGED ccReaders

\* AppendOnly.Get and AppendOnly.Has: c.RLock(), then the map lookup
AppendOnly_Get(p) ==
    /\ ccKind = "AppendOnly"
    /\ ccW = None
    /\ CcEnter(p, "read")
    /\ ccReaders' = ccReaders \cup {p}
    /\ UNCHANGED ccW

\* InMemoryFS.WriteFile (FSCache.Add): fs.files[name] = data, no lock
InMemoryFS_WriteFile(p) ==
    /\ ccKind = "InMemoryFS"
    /\ CcEnter(p, "write")
    /\ UNCHANGED <<ccW, ccReaders>>

\* InMemoryFS.ReadFile and HasFile (FSCache.Get, Has): the map lookup, no lock
InMemoryFS_ReadFile(p) ==
    /\ ccKind = "InMemoryFS"
    /\ CcEnter(p, "read")
    /\ UNCHANGED <<ccW, ccReaders>>

\* MemoryImageCache.Get: the walk from c.Cache.Front(), no lock; the list
\* holds no entry (Set inserts none), so MoveToFront is never reached
MemoryImageCache_Get(p) ==
    /\ ccKind = "MemoryImageCache"
    /\ CcEnter(p, "read")
    /\ UNCHANGED <<ccW, ccReaders>>

\* MemoryImageCache.Set with MaxSize > 0: the walk of the list and the test
\* of c.Size, no lock; nothing is stored
MemoryImageCache_Set(p) ==
    /\ ccKind = "MemoryImageCache"
    /\ CcEnter(p, "read")
    /\ UNCHANGED <<ccW, ccReaders>>

\* the call returns (Unlock or RUnlock where the type has a lock). A map
\* written while another goroutine reads or writes it is a data race: the
\* runtime stops the program with a fatal error, or it does not
Cc_Return(p) ==
    /\ CcBusy(p) /\ ~ccFault
    /\ ccPc' = [ccPc EXCEPT ![p] = "idle"]
    /\ ccW' = IF ccW = p THEN None ELSE ccW
    /\ ccReaders' = ccReaders \ {p}
    /\ ccKeys' = IF ccPc[p] = "write" THEN ccKeys \cup {ccKey[p]} ELSE ccKeys
    /\ IF \E q \in Callers \ {p} : CcBusy(q) /\ "write" \in {ccPc[p], ccPc[q]}
       THEN ccFault' \in BOOLEAN
       ELSE UNCHANGED ccFault
    /\ UNCHANGED <<ccKind, ccKey>>
    /\ UNCHANGED <<fnRest, retryVars, scanVars, dirVars>>

\* NewAppendCache over a file of some records, NewInMemoryFS or
\* NewMemoryImageCache
InitCc ==
    /\ ccKind \in {"AppendOnly", "InMemoryFS", "MemoryImageCache"}
    /\ ccKeys \in IF ccKind = "AppendOnly" THEN SUBSET Days ELSE {{}}
    /\ ccPc = [p \in Callers |-> "idle"] /\ ccKey = [p \in Callers |-> 0]
    /\ ccW = None /\ ccReaders = {} /\ ccFault = FALSE

InitCalling ==
    InitBot /\ InitApodIdle /\ InitTransIdle /\ InitMemIdle /\ InitLoadIdle /\ InitGosIdle
    /\ backOff = 0 /\ InitRetryIdle /\ InitScanIdle /\ InitCc /\ InitDirIdle

NextCc ==
    \E p \in Callers :
        \/ AppendOnly_Add(p)
        \/ AppendOnly_Get(p)
        \/ InMemoryFS_WriteFile(p)
        \/ InMemoryFS_ReadFile(p)
        \/ MemoryImageCache_Get(p)
        \/ MemoryImageCache_Set(p)
        \/ Cc_Return(p)

SpecCc == InitCalling /\ [][NextCc]_vars

\* ------------------------------------------------------------ DirectoryImageCache
\* the days and the bytes of the files
DirDays == 0..MaxDate
DirImages == 1..MaxVer

\* for _, format = range []string{"jpg", "jpeg", "png", "gif"}
DirFormats == <<"jpg", "jpeg", "png", "gif">>

DirExts == {DirFormats[i] : i \in 1..Len(DirFormats)}

DirMiss(day, reads) ==
    [op |-> "Get", day |-> day, image |-> 0, format |-> "", ok |-> FALSE, reads |-> reads]

\* the loop of Get from its i-th format on: os.ReadFile of <day>.<format>,
\* leaving at the first file read; reads are the paths it has tried
RECURSIVE DirRead(_, _, _, _)
DirRead(files, day, i, reads) ==
    IF i > Len(DirFormats) THEN DirMiss(day, reads)
    ELSE LET path == <<day, DirFormats[i]>> IN
         IF path \in DOMAIN files
         THEN [op |-> "Get", day |-> day, image |-> files[path], format |-> DirFormats[i],
               ok |-> TRUE, reads |-> reads \cup {path}]
         ELSE DirRead(files, day, i + 1, reads \cup {path})

DirGet_NoIndex(ready, files, day) ==
    DirRead(files, day, 1, {})

DirGet(ready, files, day) ==
    IF day \notin ready THEN DirMiss(day, {}) ELSE DirRead(files, day, 1, {})

DirectoryImageCache_Get ==
    /\ \E day \in DirDays : dirRet' = DirGet(dirReady, dirFiles, day)
    /\ UNCHANGED <<dirReady, dirFiles>>
    /\ UNCHANGED <<fnRest, retryVars, scanVars, ccVars>>

\* os.WriteFile of <day>.<format>; the day joins the index when the write succeeded
DirectoryImageCache_Set ==
    /\ \E day \in DirDays, format \in DirExts, image \in DirImages, written \in BOOLEAN :
          IF written
          THEN /\ Cardinality(DOMAIN dirFiles \cup {<<day, format>>}) <= MaxFiles
               /\ dirFiles' = MapPut(dirFiles, <<day, format>>, image)
               /\ dirReady' = dirReady \cup {day}
          ELSE UNCHANGED <<dirReady, dirFiles>>
    /\ dirRet' = NoDirRet
    /\ UNCHANGED <<fnRest, retryVars, scanVars, ccVars>>

\* NewDirectoryImageCache over a directory: every file name without its
\* extension is in the index, whatever the extension
InitDir ==
    /\ dirFiles \in UNION {[P -> DirImages] : P \in {Q \in SUBSET (DirDays \X DirExts) : Cardinality(Q) <= MaxFiles}}
    /\ dirReady \in {R \in SUBSET DirDays : \A path \in DOMAIN dirFiles : path[1] \in R}
    /\ dirRet = NoDirRet

InitDirectory ==
    InitBot /\ InitApodIdle /\ InitTransIdle /\ InitMemIdle /\ InitLoadIdle /\ InitGosIdle
    /\ backOff = 0 /\ InitRetryIdle /\ InitScanIdle /\ InitCcIdle /\ InitDir

NextDir == DirectoryImageCache_Get \/ DirectoryImageCache_Set

SpecDir == InitDirectory /\ [][NextDir]_vars

\* the bot with the RunScheduler of bot.go
BackoffSchedStep ==
    \/ /\ \/ Sched_Start
          \/ Sched_ToEmbed
          \/ Sched_ViewNext
          \/ Sched_Send
          \/ Sched_ViewRUnlock
       /\ UNCHANGED <<apodVars, imgVars>>
    \/ Sched_ViewRLock
    \/ /\ \/ Backoff_Tick
          \/ Backoff_Today
       /\ UNCHANGED <<apodVars, transVars, micVars, loadVars, gosVars, fnVars>>

NextBackoff ==
    \/ \E p \in Procs : DBStep(p)
    \/ \E p \in Handlers : CmdStep(p)
    \/ BackoffSchedStep

SpecBackoff == Init /\ [][NextBackoff]_vars

\* Go's scheduler runs every runnable goroutine, and a goroutine waiting in
\* Lock or RLock is woken when the lock becomes free
FairSpec ==
    /\ Spec
    /\ WF_vars(SchedStep)
    /\ SF_vars(Sched_ViewRLock)
    /\ \A p \in Procs : WF_vars(DBStep(p)) /\ SF_vars(RWLockBegin(p))

\* ------------------------------------------------------------ record cache: claims
\* C5: once a Get of a date has returned a record, every Get of that date
\* called later issues no upstream request and returns the same record.
C5_GetIdempotent ==
    (gpc = "getRet" /\ gDate \in DOMAIN got) => (~gReq /\ gRet = got[gDate])

\* C6: as long as every append succeeded, a fresh cache built by
\* NewAppendCache from the file written so far holds the same map from keys
\* to values as the live cache, whatever Add(key, value) calls were made.
C6_ReplayEqualsLive == ~cacheFailed => NewAppendCache(cacheLog) = cache

\* Fill has returned and no upstream request failed or lacked a record
FillDoneNoFault == fpc = "done" /\ ~upFault

\* C9: when the upstream answers every request with a record for every
\* requested date, Fill, run to completion over a cache that held every date
\* from 1995-06-16 to today except one day d, leaves d in the cache.
C9_FillsSingleGap ==
    FillDoneNoFault =>
        \A d \in 0..upToday : (fPre = (0..upToday) \ {d}) => d \in DOMAIN cache

\* Fill alone has closed the gap at 1995-06-16 with one range request
C9_Witness ==
    /\ FillDoneNoFault
    /\ fPre = 1..upToday /\ 0 \in DOMAIN cache
    /\ fUp = 1

\* the cache held every date from 1995-06-16 to today when Fill was called
FillPreFull == (0..upToday) \subseteq fPre

\* C10 as stated: over a cache that holds every date up to today, Fill
\* issues no upstream call at all.
C10_ZeroUpstreamCalls == FillPreFull => fUp + fUpToday = 0

\* C10, amended: over a cache that holds every date from 1995-06-16 to
\* today, Fill issues no range request and no request for a date; the one
\* upstream call it can make is the request of its call of Today.
C10_OnlyTodayRequest == FillPreFull => (fUp = 0 /\ fUpToday <= 1)

\* Fill has run to completion over a full cache, having asked for today
C10_Witness ==
    /\ fpc = "done" /\ FillPreFull
    /\ fUp = 0 /\ fUpToday = 1 /\ fToday = upToday

\* C15: when the durable append fails inside AppendOnly.Add, the add has not
\* happened: memory is never ahead of the log, every record of the index is
\* a record some line of the log holds.
C15_MemoryNotAheadOfLog ==
    \A d \in DOMAIN cache :
        \E i \in 1..Len(cacheLog) : UnmarshalResponse(cacheLog[i]) = cache[d]

\* C23: APOD.Fill never aborts early: whatever upstream call fails (the
\* resolution of today's date included), Fill completes only after it has
\* run both passes, i.e. from the end of pass 2.
C23_FillNeverAborts ==
    [][(fpc # "done" /\ fpc' = "done") => fpc = "pass2"]_vars

\* C24: in APOD.Fill a pacing sleep separates consecutive requests of one
\* kind: no range request of pass 1 is issued while the range request before
\* it (successful or failed) has not been followed by the 5 second sleep, and
\* no single-record request of pass 2 while the one before it has not been
\* followed by the 1 second sleep.
C24_RequestsPaced ==
    /\ fpc = "range" => fUnpaced # "range"
    /\ fpc = "single" => fUnpaced # "single"

\* C25: the range request [d, end] pass 1 of Fill issues starts at a date d
\* missing from the cache, ends at a date not after today, and contains at
\* most 30 dates (d and end included).
C25_RangeWithinCap ==
    (scanPc = "ret" /\ scanRet # NoRange) =>
        /\ scanRet.d \notin scanHas
        /\ scanRet.end <= scanToday
        /\ scanRet.end - scanRet.d + 1 <= RangeCap

\* C26: an existing key of the record cache is never rewritten: the append
\* log never holds two entries for the same date.
C26_OneLogEntryPerDate ==
    \A i, j \in 1..Len(cacheLog) :
        i # j => UnmarshalResponse(cacheLog[i]).Date # UnmarshalResponse(cacheLog[j]).Date

\* C27: in pass 2 of Fill, a valid date before today that is missing from the
\* cache when the pass reaches it gets one single-record fetch (the loop goes
\* on to a.Get and to its request, which is counted once, and then to the
\* next date), and when the fetch succeeds the record is in the cache. Today
\* itself, which the loop leaves out, is never missing.
C27_Pass2FetchesMissing ==
    [][fpc' # fpc =>
        /\ fpc = "pass2" => CacheHas(cache, fToday)
        /\ (fpc = "pass2" /\ Before(fD, fToday) /\ IsValidDate(fD) /\ ~CacheHas(cache, fD))
              => (fpc' = "get" /\ fD' = fD)
        /\ (fpc = "get" /\ IsValidDate(fD) /\ ~CacheHas(cache, fD))
              => (fpc' = "single" /\ fD' = fD)
        /\ fpc = "single"
              => /\ fUp' = fUp + 1
                 /\ fpc' \in {"sleep1", "pass2"}
                 /\ fpc' = "sleep1" => (fD' = fD /\ CacheHas(cache', fD) /\ cache'[fD].Date = fD)
                 /\ fpc' = "pass2" => fD' = fD + 1
        /\ fpc = "sleep1" => (fpc' = "pass2" /\ fD' = fD + 1 /\ fUp' = fUp)
    ]_vars

\* pass 2 has fetched and stored a record that pass 1 failed to get
C27_Witness ==
    /\ fpc = "sleep1" /\ fUnpaced = "single" /\ upFault
    /\ fD \notin fPre /\ CacheHas(cache, fD)

\* ------------------------------------------------------------ image transcoding: claims
\* C7: whenever Resize returns a nil error, len(i.Bytes) <= maxBytes holds;
\* when no quality of the loop fits, it returns an error.
C7_ResizeWithinBudget ==
    (ipc = "ResizeRet" /\ ~iRet.err) => iBytes.len <= iMax

\* C8: for every input with len(img) <= maxSize, resizeImage returns img
\* unchanged and no error (stated here for the inputs image.Decode accepts).
C8_SmallInputUnchanged ==
    (ipc = "resizeImageRet" /\ iDecodes /\ iBytes.len <= iMax) =>
        (~iRet.err /\ iRet.bytes = iBytes)

\* C28: the Format tag of an ImageWrapper names the encoding of its Bytes,
\* after NewImageWrapper and after every Resize: the bytes are the download,
\* whose encoding image.Decode reported as Format, or an encoding in Format.
C28_FormatNamesEncoding ==
    (iDecodes /\ ipc \in {"idle", "ResizeRet"}) =>
        (iBytes.enc = "orig" \/ iBytes.enc = iFormat)

\* the qualities resizeImage tries
C29_Tried == {q \in 1..QualityMax : q % QualityStep = 0}

\* C29: for a decodable image over budget, every candidate resizeImage
\* passes over is the JPEG encoding at one quality of 100, 95, ... alone and
\* does not fit the budget (its size is not <= maxSize); the candidate it
\* returns is the encoding at one such quality alone, fits, and comes with
\* format "jpeg"; it reports that nothing fits only after the candidate of
\* the last quality did not fit.
C29_FirstFitReturned ==
    (iDecodes /\ iBytes.len > iMax) =>
        /\ (ipc = "resizeImage" /\ iQuality < QualityMax) =>
              /\ Len(iBuf) = 1 /\ iBuf[1].enc = "jpeg"
              /\ iBuf[1].quality = iQuality + QualityStep
              /\ iBuf[1].quality \in C29_Tried
              /\ ~(iBuf[1].len <= iMax)
        /\ (ipc = "resizeImageRet" /\ ~iRet.err) =>
              /\ iBuf = <<iRet.bytes>> /\ iRet.format = "jpeg"
              /\ iRet.bytes.enc = "jpeg" /\ iRet.bytes.quality \in C29_Tried
              /\ iRet.bytes.len <= iMax
        /\ (ipc = "resizeImageRet" /\ iRet.err /\ iRet.format = "") =>
              /\ Len(iBuf) = 1 /\ iBuf[1].quality = QualityStep
              /\ ~(iBuf[1].len <= iMax)

\* ------------------------------------------------------------ image cache misses: claims
\* C19: concurrent image-cache misses on the same key are collapsed: when
\* the calls of two callers for the same date overlap, the fallback is
\* invoked by one of them only, and callers that get an image get the same.
C19_MissesCollapsed ==
    \A p, q \in Callers :
        (p # q /\ oOverlap /\ oDate[p] = oDate[q]) =>
            /\ ~(oFetched[p] /\ oFetched[q])
            /\ (oPc[p] = "ret" /\ oPc[q] = "ret" /\ ~oRet[p].err /\ ~oRet[q].err) =>
                  oRet[p].img = oRet[q].img

\* C30: ImageCache releases its lock on every path of GetOrSet: the lock is
\* held only by a caller that is inside the locked part of its call, so a
\* call that has returned (its fallback having failed or not) blocks no
\* later Get, Set or GetOrSet.
C30_LockReleasedOnReturn ==
    \A p \in Callers : icW = p => oPc[p] = "fn"

\* ------------------------------------------------------------ MemoryImageCache: claims
\* C11: MemoryImageCache evicts in least-recently-used order: a Get hits
\* exactly when a least-recently-used list of capacity MaxSize, given the
\* same calls, holds the date (an entry that was set and read survives the
\* later Sets that push out the least recently used one).
C11_GetHitsAsLru == micCall.op = "Get" => micCall.ok = micCall.want


C1_ReplayEqualsLive == ~appendFailed => NewDB(dbLog) = Live

\* RemoveIf has just pruned a scheduled channel and logged the Remove event
C1_Witness ==
    /\ ~appendFailed
    /\ Len(dbLog) >= 2
    /\ \E p \in Procs :
         /\ dpc[p] = "crit" /\ dop[p].kind = "RemoveIf"
         /\ dop[p].ChannelID \in Channels \ DOMAIN schedule
         /\ dbLog[Len(dbLog)] = MarshalEvent(Event(EventTypeRemove, NoPtr, RemoveEvent(dop[p].ChannelID), NoPtr))
         /\ dbLog[1].type = "set"

\* C16: when the durable append fails inside DB.Set, DB.Remove or DB.Sent,
\* the schedule and last maps are left equal to what a replay of the log
\* gives.
C16_FailedAppendKeepsReplay ==
    appendFailed =>
        /\ schedule = NewDB(dbLog).schedule
        /\ last = NewDB(dbLog).last

\* ------------------------------------------------------------ schedule store: last write wins
\* the lines of the log that set or remove channel c, by place
WritesOf(log, c) ==
    {i \in 1..Len(log) :
        \/ log[i].type = "set" /\ log[i].set.ChannelID = c
        \/ log[i].type = "remove" /\ log[i].remove.ChannelID = c}

SentsOf(log, c) == {i \in 1..Len(log) : log[i].type = "sent" /\ log[i].sent.ChannelID = c}

Latest(S) == CHOOSE i \in S : \A j \in S : j <= i

\* channel -> the hour of its latest Set, for the channels whose latest Set
\* or Remove is a Set
LastWriteSchedule(log) ==
    LET C == {c \in Channels : WritesOf(log, c) # {} /\ log[Latest(WritesOf(log, c))].type = "set"}
    IN  [c \in C |-> log[Latest(WritesOf(log, c))].set.Hour]

\* channel -> the date of its latest Sent
LastWriteSent(log) ==
    [c \in {c \in Channels : SentsOf(log, c) # {}} |-> log[Latest(SentsOf(log, c))].sent.Date]

\* C13: DB.Set is last-write-wins per channel, live and on replay: schedule[c]
\* is the hour of the latest Set(c, _) not followed by a removal of c, last[c]
\* is the date of the latest Sent(c, _), and a DB reloaded from the log has
\* the same two maps (after Set(c1, h), Set(c1, h'), Sent(c1, d): {c1: h'}
\* and {c1: d}).
C13_LastWriteWins ==
    ~appendFailed =>
        /\ schedule = LastWriteSchedule(dbLog)
        /\ last = LastWriteSent(dbLog)
        /\ NewDB(dbLog).status = "ok"
        /\ NewDB(dbLog).schedule = schedule
        /\ NewDB(dbLog).last = last

C13_Witness ==
    /\ dbLog = <<MarshalEvent(Event(EventTypeSet, SetEvent("c1", 1), NoPtr, NoPtr)),
                 MarshalEvent(Event(EventTypeSet, SetEvent("c1", 0), NoPtr, NoPtr)),
                 MarshalEvent(Event(EventTypeSent, NoPtr, NoPtr, SentEvent("c1", 1)))>>
    /\ schedule = MapPut(EmptyMap, "c1", 0)
    /\ last = MapPut(EmptyMap, "c1", 1)
    /\ NewDB(dbLog) = Live

\* ------------------------------------------------------------ loading a log file: claims
EndsTruncated == file # <<>> /\ IsTruncated(file[Len(file)])
CompleteLines == SubSeq(file, 1, Len(file) - 1)
LoadOf(lines) == IF fileOf = "events" THEN NewDB(lines) ELSE AppendOnlyLoad(lines)

\* C17: loading an append log whose final line is truncated succeeds: the
\* result is the fold of the complete lines before it, for the record cache
\* log and for the schedule event log.
C17_TruncatedTailTolerated ==
    (lpc = "done" /\ EndsTruncated /\ LoadOf(CompleteLines).status = "ok") =>
        loaded = LoadOf(CompleteLines)

\* line i of the file has no known kind, or has a kind without its payload
BadEventLine(i) ==
    /\ ~IsTruncated(file[i])
    /\ \/ file[i].type \notin {"set", "remove", "sent"}
       \/ file[i].type = "set" /\ file[i].set.nil
       \/ file[i].type = "remove" /\ file[i].remove.nil
       \/ file[i].type = "sent" /\ file[i].sent.nil

\* C18: NewDB applies the events in log order, and on a log that holds an
\* event of unknown kind or a malformed event it fails the whole load by
\* returning an error and no DB.
C18_BadEventFailsLoad ==
    (lpc = "done" /\ fileOf = "events") =>
        /\ (\E i \in 1..Len(file) : BadEventLine(i)) => loaded.status = "error"
        /\ loaded.status = "ok" =>
              /\ loaded.schedule = LastWriteSchedule(file)
              /\ loaded.last = LastWriteSent(file)

\* ------------------------------------------------------------ schedule store: RemoveIf
\* goroutine p, inside the loop of RemoveIf, removes channel c in this step
RemoveIfPrunes(p, c) ==
    /\ dpc[p] = "crit" /\ dop[p].kind = "RemoveIf"
    /\ c \in DOMAIN schedule /\ c \notin DOMAIN schedule'

\* C14: DB.RemoveIf appends one Remove event for every channel its predicate
\* selects (when the append succeeds), so that a DB reloaded from the log
\* after RemoveIf pruned a channel has no such channel in its schedule.
C14_RemoveIfLogsRemove ==
    [][\A p \in Procs, c \in Channels :
         (RemoveIfPrunes(p, c) /\ encFails' = encFails) =>
             /\ dbLog' = Append(dbLog, MarshalEvent(Event(EventTypeRemove, NoPtr, RemoveEvent(c), NoPtr)))
             /\ c \notin DOMAIN NewDB(dbLog').schedule]_vars

\* RemoveIf has just pruned c2, which an earlier line of the log had set
C14_Witness ==
    \E p \in Procs :
        /\ dpc[p] = "crit" /\ dop[p].kind = "RemoveIf" /\ dop[p].ChannelID = "c2"
        /\ ~appendFailed
        /\ Len(dbLog) = 2
        /\ dbLog[1].type = "set" /\ dbLog[1].set.ChannelID = "c2"
        /\ dbLog[2] = MarshalEvent(Event(EventTypeRemove, NoPtr, RemoveEvent("c2"), NoPtr))
        /\ "c2" \notin DOMAIN schedule
        /\ "c2" \notin DOMAIN NewDB(dbLog).schedule

\* ------------------------------------------------------------ Retry
\* C21: Retry(f) is bounded: it calls f at least once and at most 5 times,
\* returns the first successful result without calling f again, and after 5
\* failures returns the last error.
C21_RetryBounded ==
    rpc = "ret" =>
        /\ rRet.calls >= 1 /\ rRet.calls <= 5
        /\ \A j \in 1..(rRet.calls - 1) : ~rOutcomes[j]
        /\ rRet.ok = rOutcomes[rRet.calls]
        /\ ~rRet.ok => rRet.calls = 5

\* f fails five times and would succeed at the sixth call
C21_Witness ==
    /\ rpc = "ret" /\ ~rRet.ok /\ rRet.calls = 5
    /\ rOutcomes[MaxF]

\* ------------------------------------------------------------ scheduler: who is sent to
\* C22: in a dispatch tick the scheduler sends to a channel only if the
\* channel is in the schedule map and its registered hour equals the hour
\* read at the start of the tick.
C22_SendsOnlyAtRegisteredHour ==
    spc = "send" => (sCur \in DOMAIN schedule /\ schedule[sCur] = sHour)

\* the callback sends to one channel after it has passed over another whose
\* hour is different
C22_Witness ==
    /\ spc = "send"
    /\ \E c \in DOMAIN schedule : c # sCur /\ c \notin sTodo /\ schedule[c] # sHour

\* ------------------------------------------------------------ scheduler: retries exhausted
\* the step in which the scheduler gives up resolving today's record
GivesUp == spc = "retry" /\ spc' \notin {"retry", "embed"}

\* C20: when resolving today's record fails on every retry, no message is
\* dispatched in that tick and the scheduler goes back to waiting for the
\* next top of the hour.
C20_GivesUpThenWaits ==
    [][GivesUp => (spc' = "sleep" /\ sTodo' = {} /\ UNCHANGED <<last, dbLog>>)]_vars

\* ------------------------------------------------------------ scheduler: dispatch
\* the scheduler's callback is inside b.db.Sent(c, d)
SchedInSent(c, d) == dpc["sched"] # "idle" /\ dop["sched"] = Op("Sent", c, 0, d)

\* b.db.Sent(c, d) has returned to the scheduler
SchedSentDone(c, d) ==
    /\ dpc["sched"] = "idle"
    /\ c \in DOMAIN last /\ last[c] = d
    /\ appendFailed \/
         (dbLog # <<>> /\ dbLog[Len(dbLog)] = MarshalEvent(Event(EventTypeSent, NoPtr, NoPtr, SentEvent(c, d))))

\* C2: whenever the send to a channel succeeds during a dispatch tick, the
\* DB.Sent(channel, date) call made for it completes: the Sent event is
\* appended to the log and last[channel] becomes the record's date.
C2_SentCompletes ==
    \A c \in Channels, d \in Dates : SchedInSent(c, d) ~> SchedSentDone(c, d)

\* the callback of View has made its send call for channel c in this tick
SendAttempted(c) ==
    /\ spc = "iter"
    /\ c \in DOMAIN schedule /\ schedule[c] = sHour
    /\ c \notin sTodo

\* C3: in every dispatch tick, every channel of the schedule whose hour
\* equals the tick's hour gets a send attempt in that tick, whatever the
\* outcome of the sends to the other channels.
C3_EveryMatchAttempted ==
    \A c \in Channels :
        (spc = "iter" /\ c \in sTodo /\ schedule[c] = sHour) ~> SendAttempted(c)

\* C4: every dispatch tick terminates and the loop goes back to waiting for
\* the next top of the hour; no lock acquisition on the store waits forever.
C4_TickTerminates ==
    /\ (spc = "retry") ~> (spc = "sleep" /\ SchedIdle)
    /\ \A p \in Procs : (dpc[p] \in {"lock", "wait"}) ~> (dpc[p] \in {"crit", "idle"})

\* ------------------------------------------------------------ locks and network calls: claims
\* C31: no store lock is held while a network call is in progress: the
\* reachability check of Bot.UpdateSchedule (the predicate of RemoveIf) runs
\* with the store's write lock released, the sends of the dispatch loop run
\* with its read lock released, and the fallback of ImageCache.GetOrSet (the
\* download) runs with the cache's lock released.
C31_NoLockDuringNetwork ==
    /\ \A p \in Procs :
         (dop[p].kind = "RemoveIf" /\ dpc[p] = "crit" /\ todo[p] # {}) => rwW # p
    /\ spc = "send" => "sched" \notin rwReaders
    /\ \A p \in Callers : oPc[p] = "fn" => icW # p

\* C32: every cache type follows shared-read / exclusive-write: while a call
\* that mutates the cache's state is in progress (Add, WriteFile, a Set or a
\* reordering Get of MemoryImageCache), no other call reads or writes the
\* same cache.
C32_ExclusiveWrite ==
    \A p, q \in Callers : (p # q /\ ccPc[p] = "write") => ~CcBusy(q)

\* C33: the client's memo of today's record (current, lastUpdate) is never
\* read by one goroutine while another writes it: while the Today call of
\* the scheduler or of a handler is between its test of the memo and its
\* assignment to it, Fill is neither about to test the memo nor about to
\* assign it.
C33_MemoNotShared ==
    tpc = "todayReq" => fpc \notin {"start", "todayReq"}

\* C34: concurrent DB.Set, DB.Remove and DB.Sent calls are each atomic: at
\* most one call is between its db.Lock() and its db.Unlock(), and, as long
\* as every append succeeded, whenever no call stands between its update of
\* the maps and its append, a replay of the log equals the live maps (the
\* events are in the log in the order in which they were applied).
C34_LogOrderIsApplyOrder ==
    /\ \A p, q \in Procs :
         (p # q /\ dpc[p] \in {"crit", "applied", "unlock"}) => dpc[q] \in {"idle", "lock"}
    /\ (~appendFailed /\ \A p \in Procs : dpc[p] # "applied") => NewDB(dbLog) = Live

\* a call waits for the lock while another, made after a first event was
\* logged, has updated the maps and not yet appended its event
C34_Witness ==
    /\ dbLog # <<>> /\ ~appendFailed
    /\ \E p, q \in Procs : dpc[p] = "applied" /\ dpc[q] = "lock" /\ dop[p].ChannelID = dop[q].ChannelID

\* ------------------------------------------------------------ C35
\* C35: DirectoryImageCache.Get(day) returns a miss without reading the
\* disk when day is not in the ready index; when day is in the index but
\* none of its files can be read it returns a miss; and a hit returns the
\* bytes of a file of the directory together with the format named by
\* that file's extension.
C35_GetMissOrFile ==
    dirRet.op = "Get" =>
        /\ dirRet.day \notin dirReady => (~dirRet.ok /\ dirRet.reads = {})
        /\ (dirRet.day \in dirReady /\ \A e \in DirExts : <<dirRet.day, e>> \notin DOMAIN dirFiles)
               => (~dirRet.ok /\ dirRet.image = 0 /\ dirRet.format = "")
        /\ dirRet.ok =>
               /\ <<dirRet.day, dirRet.format>> \in DOMAIN dirFiles
               /\ dirRet.image = dirFiles[<<dirRet.day, dirRet.format>>]

\* an indexed day without a readable file has been asked for, and a day
\* whose file is a png has been
C35_Witness ==
    /\ dirRet.op = "Get" /\ dirRet.day \in dirReady
    /\ \/ ~dirRet.ok /\ Cardinality(dirRet.reads) = Len(DirFormats)
       \/ dirRet.ok /\ dirRet.format = "png"

\* ------------------------------------------------------------ C36
\* C36: a step of DB.Sent(channel, date) leaves the schedule map as it was
\* and changes no entry of last but the channel's; a step of DB.Remove or
\* of DB.RemoveIf leaves last as it was, so the Sent record of a removed
\* channel stays.
C36_SentAndRemoveFrames ==
    [][\A p \in Procs :
          /\ (dop[p].kind = "Sent" /\ dop'[p] = NoOp) =>
                 /\ schedule' = schedule
                 /\ \A c \in Channels \ {dop[p].ChannelID} :
                        /\ (c \in DOMAIN last') <=> (c \in DOMAIN last)
                        /\ c \in DOMAIN last => last'[c] = last[c]
                 /\ dop[p].ChannelID \in DOMAIN last'
          /\ (dop[p].kind = "Remove" /\ dop'[p] = NoOp) => last' = last
          /\ (dop[p].kind = "RemoveIf" /\ todo'[p] # todo[p]) => last' = last
      ]_vars

\* a channel was scheduled, sent to and then removed, and its Sent record
\* is still there
C36_Witness ==
    \E c \in Channels, h \in Hours, d \in Dates :
        /\ Len(dbLog) = 3
        /\ dbLog[1] = MarshalEvent(Event(EventTypeSet, SetEvent(c, h), NoPtr, NoPtr))
        /\ dbLog[2] = MarshalEvent(Event(EventTypeSent, NoPtr, NoPtr, SentEvent(c, d)))
        /\ dbLog[3] = MarshalEvent(Event(EventTypeRemove, NoPtr, RemoveEvent(c), NoPtr))
        /\ c \notin DOMAIN schedule
        /\ c \in DOMAIN last /\ last[c] = d

\* ------------------------------------------------------------ C37
\* C37: with a MemoryImageCache, when GetOrSetImage has succeeded for a
\* date with an image not larger than MaxSize, the very next call, if it
\* is a Get or a GetOrSetImage of that date, returns that wrapper and
\* does not call getImage.
C37_ResolvedOnce ==
    [][(/\ micCall.op = "GetOrSetImage" /\ micCall.ok /\ micCall.len <= mic.MaxSize
        /\ micCalls' = micCalls + 1
        /\ micCall'.op \in {"Get", "GetOrSetImage"} /\ micCall'.date = micCall.date)
       => (micCall'.ok /\ micCall'.len = micCall.len /\ ~micFetched')
      ]_vars

\* ------------------------------------------------------------ C38
\* a step in which a call of Today, the scheduler's or Fill's, makes its request
C38_TodayRequest ==
    (tpc = "todayReq" /\ tpc' = "idle") \/ (fpc = "todayReq" /\ fpc' # "todayReq")

\* C38: a call of APOD.Today issues its upstream request only when no
\* record is memoised or the memo is an hour old; a call made while the
\* memo is fresh returns it with no upstream call; and a request either
\* succeeds and renews the memo or fails and leaves the memo and its time
\* stamp as they were.
C38_MemoWithinTheHour ==
    [][/\ C38_TodayRequest =>
              /\ ~MemoFresh
              /\ \/ current' = Response(upToday, upVer) /\ fresh'
                 \/ current' = current /\ fresh' = fresh
       /\ (tpc = "idle" /\ tOps' = tOps + 1 /\ MemoFresh) =>
              /\ tpc' = "idle"
              /\ current' = current /\ fresh' = fresh /\ upFault' = upFault
      ]_vars

\* ------------------------------------------------------------ C39
\* C39: Bot.RunScheduler never dispatches without a resolved image: in a
\* tick in which ToEmbed returned no embed and no file the scheduler makes
\* no send to any channel and calls DB.Sent for none.
C39_NoDispatchWithoutImage ==
    /\ spc = "send" => sEmbed
    /\ (spc \in {"iter", "send"} /\ dop["sched"].kind = "Sent") => sEmbed

====
